---- MODULE Spec2Model ----
(***************************************************************************)
(* Model of the bill-splitter application (Cytrogen/bill-splitter):        *)
(* the input screen's cost allocation (handleCalculate), the result        *)
(* screen's save (handleSaveBill), the batch generator (handleBatchCreate),*)
(* the home screen's list, deletions and period summary                    *)
(* (handleCalculateSummary), the families screen, and the persistent       *)
(* key-value store they share.                                             *)
(*                                                                         *)
(* Numbers.  JavaScript numbers are IEEE doubles.  The model represents a  *)
(* number as an exact rational [n |-> numerator, d |-> denominator] in     *)
(* lowest terms with d > 0; NaN is the record with d = 0.  Rounding error  *)
(* of doubles is therefore not modelled.                                   *)
(*                                                                         *)
(* Time.  Date.getTime() and Date.now() are counted in whole days since    *)
(* 1970-01-01 (dates chosen in the date picker lie on a day boundary);     *)
(* time zones and daylight saving are not modelled.                        *)
(*                                                                         *)
(* Text.  A text field is a sequence of one-character strings.  The bill   *)
(* month token "<year>年 <month>月" is written with "Y" for the year sign   *)
(* and "M" for the month sign.                                             *)
(***************************************************************************)
EXTENDS Integers, Sequences, FiniteSets, TLC

(***************************************************************************)
(* Bounds of the model                                                     *)
(***************************************************************************)
\* most bills the persisted 'bills' collection holds in the model
MaxBills == 4
\* the clock of the model stops advancing MaxClock days after Now0
MaxClock == 3
\* most members of a family
MaxMembers == 2
\* most invocations of handleSaveBill awaiting the store at one time
MaxInflight == 2
\* most bills of a stored collection the summary is computed over
MaxStored == 3
\* Date.now() at application start, in days since 1970-01-01 (2024-03-01)
Now0 == 19783

(***************************************************************************)
(* Numbers                                                                 *)
(***************************************************************************)
Abs(i) == IF i < 0 THEN -i ELSE i

RECURSIVE GCD(_, _)
GCD(a, b) == IF b = 0 THEN a ELSE GCD(b, a % b)

\* the rational p/q in lowest terms, q # 0
Rat(p, q) ==
    LET g == GCD(Abs(p), Abs(q))
        s == IF q < 0 THEN -1 ELSE 1
    IN  [n |-> s * (p \div g), d |-> s * (q \div g)]

NaN == [n |-> 0, d |-> 0]
Num(i) == [n |-> i, d |-> 1]
Zero == Num(0)
IsNaN(a) == a.d = 0

\* a + b, a - b, a * b, a / b of JavaScript on numbers that are not NaN
Plus(a, b) == Rat(a.n * b.d + b.n * a.d, a.d * b.d)
Minus(a, b) == Rat(a.n * b.d - b.n * a.d, a.d * b.d)
Times(a, b) == Rat(a.n * b.n, a.d * b.d)
Divide(a, b) == Rat(a.n * b.d, a.d * b.n)
Less(a, b) == a.n * b.d < b.n * a.d
Greater(a, b) == Less(b, a)

\* x || 0 : NaN and 0 are falsy
OrZero(a) == IF IsNaN(a) \/ a.n = 0 THEN Zero ELSE a

(***************************************************************************)
(* Text fields                                                             *)
(***************************************************************************)
Digits == <<"0", "1", "2", "3", "4", "5", "6", "7", "8", "9">>
IsDigit(c) == \E i \in 1..10 : Digits[i] = c
DigitVal(c) == (CHOOSE i \in 1..10 : Digits[i] = c) - 1

\* the length of the longest prefix of digits of t from position i on
RECURSIVE DigitRun(_, _)
DigitRun(t, i) ==
    IF i <= Len(t) /\ IsDigit(t[i]) THEN 1 + DigitRun(t, i + 1) ELSE 0

\* the value of the digits t[i] .. t[i+k-1]
RECURSIVE DigitsVal(_, _, _)
DigitsVal(t, i, k) ==
    IF k = 0 THEN 0 ELSE DigitsVal(t, i, k - 1) * 10 + DigitVal(t[i + k - 1])

RECURSIVE Pow10(_)
Pow10(k) == IF k = 0 THEN 1 ELSE 10 * Pow10(k - 1)

\* parseFloat(t): optional sign, digits, optional "." and digits; NaN when
\* the text does not start with a number
ParseFloat(t) ==
    LET neg == Len(t) > 0 /\ t[1] = "-"
        s == IF neg THEN 2 ELSE 1
        k == DigitRun(t, s)
        dot == s + k <= Len(t) /\ t[s + k] = "."
        f == IF dot THEN DigitRun(t, s + k + 1) ELSE 0
        ip == DigitsVal(t, s, k)
        fp == DigitsVal(t, s + k + 1, f)
        mag == Rat(ip * Pow10(f) + fp, Pow10(f))
    IN  IF k + f = 0 THEN NaN
        ELSE IF neg THEN Minus(Zero, mag) ELSE mag

\* parseInt(t, 10): optional sign and digits; NaN when there is no digit
ParseInt(t) ==
    LET neg == Len(t) > 0 /\ t[1] = "-"
        s == IF neg THEN 2 ELSE 1
        k == DigitRun(t, s)
    IN  IF k = 0 THEN NaN
        ELSE IF neg THEN Num(-DigitsVal(t, s, k)) ELSE Num(DigitsVal(t, s, k))

\* n.toString() of a non-negative integer
RECURSIVE IntToString(_)
IntToString(i) ==
    IF i < 10 THEN <<Digits[i + 1]>>
    ELSE IntToString(i \div 10) \o <<Digits[(i % 10) + 1]>>

\* a variant of PadStart2 that does not pad
PadStart2Unpadded(s) == s

\* s.padStart(2, '0')
PadStart2(s) == IF Len(s) < 2 THEN <<"0">> \o s ELSE s

(***************************************************************************)
(* Dates: [year, month (0..11, as getMonth), date (day of month)]          *)
(***************************************************************************)
\* days since 1970-01-01 of day `dd` counted from the first of month m0 of
\* year y (dd may exceed the month's length, as in MakeDay of ECMAScript)
MakeDay(y, m0, dd) ==
    LET ym == y + (m0 \div 12)
        m == (m0 % 12) + 1
        yy == IF m <= 2 THEN ym - 1 ELSE ym
        era == yy \div 400
        yoe == yy - era * 400
        mp == IF m > 2 THEN m - 3 ELSE m + 9
        doy == ((153 * mp + 2) \div 5) + dd - 1
        doe == yoe * 365 + (yoe \div 4) - (yoe \div 100) + doy
    IN  era * 146097 + doe - 719468

\* the calendar date of a day number
DateFromDay(z0) ==
    LET z == z0 + 719468
        era == z \div 146097
        doe == z - era * 146097
        yoe == (doe - (doe \div 1460) + (doe \div 36524) - (doe \div 146096)) \div 365
        doy == doe - (365 * yoe + (yoe \div 4) - (yoe \div 100))
        mp == (5 * doy + 2) \div 153
        dd == doy - ((153 * mp + 2) \div 5) + 1
        m == IF mp < 10 THEN mp + 3 ELSE mp - 9
        yy == yoe + era * 400
    IN  [year |-> IF m <= 2 THEN yy + 1 ELSE yy, month |-> m - 1, date |-> dd]

\* date.getTime(), in days
getTime(date) == MakeDay(date.year, date.month, date.date)

\* the date after date.setMonth(date.getMonth() + 1)
setMonth(date, m0) == DateFromDay(MakeDay(date.year, m0, date.date))

\* the value `undefined` of an optional date
NoDate == [year |-> 0, month |-> 0, date |-> 0]

formatBillMonth(date) ==
    IF date = NoDate THEN <<>>
    ELSE IntToString(date.year) \o <<"Y", " ">>
         \o PadStart2(IntToString(date.month + 1)) \o <<"M">>

\* s.indexOf(c) + 1: the position of the first c in s, 0 when there is none
IndexOf(s, c) ==
    IF \E i \in 1..Len(s) : s[i] = c
    THEN CHOOSE i \in 1..Len(s) : s[i] = c /\ \A j \in 1..(i - 1) : s[j] # c
    ELSE 0

\* s.replace(c, ''): s without the first c
RemoveFirst(s, c) ==
    LET i == IndexOf(s, c)
    IN  IF i = 0 THEN s ELSE SubSeq(s, 1, i - 1) \o SubSeq(s, i + 1, Len(s))

\* parseBillMonth of input.tsx, for a token that holds a space: the first
\* day of the month the token names
parseBillMonth(monthString) ==
    LET sp == IndexOf(monthString, " ")
        yearPart == SubSeq(monthString, 1, sp - 1)
        rest == SubSeq(monthString, sp + 1, Len(monthString))
        sp2 == IndexOf(rest, " ")
        monthPart == IF sp2 = 0 THEN rest ELSE SubSeq(rest, 1, sp2 - 1)
        year == ParseInt(RemoveFirst(yearPart, "Y"))
        month == ParseInt(RemoveFirst(monthPart, "M"))
    IN  [year |-> year.n, month |-> month.n - 1, date |-> 1]

\* the digits after the point of r/d, 0 <= r < d, for a fraction that
\* terminates
RECURSIVE FractionDigits(_, _)
FractionDigits(r, d) ==
    IF r = 0 THEN <<>>
    ELSE <<Digits[((r * 10) \div d) + 1]>> \o FractionDigits((r * 10) % d, d)

\* x.toString() of a finite number whose decimal expansion terminates
NumberToString(x) ==
    LET a == Abs(x.n)
        r == a % x.d
    IN  (IF x.n < 0 THEN <<"-">> ELSE <<>>)
            \o IntToString(a \div x.d)
            \o (IF r = 0 THEN <<>> ELSE <<".">> \o FractionDigits(r, x.d))

(***************************************************************************)
(* State                                                                   *)
(***************************************************************************)
VARIABLES
    \* AsyncStorage: the entries 'families' and 'bills'
    storeFamilies, storeBills,
    \* Date.now(), in days
    clock,
    \* the screen on top of the navigation stack and the last alert shown
    screen, alert,
    \* InputScreen
    totalCost, familiesInBill, billDate, editingBillId, allSavedFamilies,
    \* ResultScreen: params.data, isSaved, the invocations of handleSaveBill
    \* that are awaiting the store
    data, isSaved, saveCalls,
    \* BatchCreateScreen
    allFamilies, selectedFamilyIds, extraServiceCosts, batchTotalCost,
    startDate, endDate, isCreating,
    \* the invocation of handleBatchCreate that is awaiting the store, and
    \* the list newBills of the last invocation that got to generate bills
    batchCall, newBills,
    \* HomeScreen: isLoading, allBills, the summary's startDate and endDate
    \* (named summaryStartDate and summaryEndDate here, BatchCreateScreen
    \* has a startDate and an endDate of its own), summaryData,
    \* isSummaryModalVisible, the list filteredBills of the last invocation
    \* of handleCalculateSummary that got to aggregate, isEditMode,
    \* selectedBillIds and the deletions that are awaiting the store
    isLoading, allBills, summaryStartDate, summaryEndDate, summaryData,
    isSummaryModalVisible, summaryBills, isEditMode, selectedBillIds,
    homeCalls,
    \* FamiliesScreen: families, currentFamily, isModalVisible and the
    \* writes that are awaiting the store
    families, currentFamily, isModalVisible, familyCalls,
    \* the screen beneath ResultScreen on the navigation stack
    resultFrom

storeVars == <<storeFamilies, storeBills>>
inputVars == <<totalCost, familiesInBill, billDate, editingBillId, allSavedFamilies>>
resultVars == <<data, isSaved, saveCalls>>
batchVars == <<allFamilies, selectedFamilyIds, extraServiceCosts, batchTotalCost,
               startDate, endDate, isCreating, batchCall, newBills>>
summaryVars == <<summaryStartDate, summaryEndDate, summaryData,
                 isSummaryModalVisible, summaryBills>>
editVars == <<isEditMode, selectedBillIds>>
homeVars == <<isLoading, allBills, summaryVars, editVars, homeCalls>>
familyVars == <<families, currentFamily, isModalVisible, familyCalls>>
vars == <<storeFamilies, storeBills, clock, screen, alert, totalCost,
          familiesInBill, billDate, editingBillId, allSavedFamilies, data,
          isSaved, saveCalls, allFamilies, selectedFamilyIds,
          extraServiceCosts, batchTotalCost, startDate, endDate, isCreating,
          batchCall, newBills, isLoading, allBills, summaryStartDate,
          summaryEndDate, summaryData, isSummaryModalVisible, summaryBills,
          isEditMode, selectedBillIds, homeCalls, families, currentFamily,
          isModalVisible, familyCalls, resultFrom>>

\* the ids and names of the families of the model
FamilyIds == {1, 2}
FamilyName(id) == IF id = 1 THEN <<"A">> ELSE <<"B">>

\* `null` as a bill id (a draft); `if (data.id)` treats null and 0 alike
NullId == 0
\* params.data absent
NoData == [id |-> NullId, billMonth |-> <<>>, totalCost |-> NaN,
           costPerLine |-> NaN, families |-> <<>>]
\* currentFamily while the modal is closed
NoFamily == [id |-> NullId, name |-> <<>>, members |-> <<>>]
\* no invocation of handleBatchCreate in flight
IdleCall == [pc |-> "idle", bills |-> <<>>]

RECURSIVE MembersOf(_)
MembersOf(k) ==
    IF k = 0 THEN <<>> ELSE MembersOf(k - 1) \o <<[id |-> k, name |-> <<"m">>]>>

\* the persisted 'families' collections the application starts from: the
\* families 1 and 2, each with 0 .. MaxMembers members
FamilyStores ==
    { << [id |-> 1, name |-> FamilyName(1), members |-> MembersOf(k1)],
         [id |-> 2, name |-> FamilyName(2), members |-> MembersOf(k2)] >> :
      k1 \in 0..MaxMembers, k2 \in 0..MaxMembers }

\* array.reduce((sum, x) => sum + x, 0) over numbers and over integers
RECURSIVE SumNum(_)
SumNum(s) == IF s = <<>> THEN Zero ELSE Plus(SumNum(SubSeq(s, 1, Len(s) - 1)), s[Len(s)])

RECURSIVE SumInt(_)
SumInt(s) == IF s = <<>> THEN 0 ELSE SumInt(SubSeq(s, 1, Len(s) - 1)) + s[Len(s)]

\* JSON.parse(JSON.stringify(x)) of a number: a finite number is written with
\* the digits that read back as the same number, NaN is written as null
Null == [n |-> 0, d |-> -1]
JSONNumber(x) == IF IsNaN(x) THEN Null ELSE x

\* JSON.parse(JSON.stringify(bills)) of a list of bills: the store holds text
JSONBills(bills) ==
    [k \in 1..Len(bills) |->
        [id |-> bills[k].id,
         billMonth |-> bills[k].billMonth,
         totalCost |-> JSONNumber(bills[k].totalCost),
         costPerLine |-> JSONNumber(bills[k].costPerLine),
         families |->
            [j \in 1..Len(bills[k].families) |->
                [id |-> bills[k].families[j].id,
                 name |-> bills[k].families[j].name,
                 lines |-> bills[k].families[j].lines,
                 extraService |->
                    [hasService |-> bills[k].families[j].extraService.hasService,
                     cost |-> JSONNumber(bills[k].families[j].extraService.cost)]]]]]

\* the application after its start: HomeScreen is mounted with its initial
\* state and its focus effect has begun to load
InitScreens ==
    /\ clock = Now0
    /\ screen = "home"
    /\ alert = "none"
    /\ isLoading = TRUE
    /\ allBills = <<>>
    /\ summaryStartDate = NoDate
    /\ summaryEndDate = NoDate
    /\ summaryData = <<>>
    /\ isSummaryModalVisible = FALSE
    /\ summaryBills = <<>>
    /\ isEditMode = FALSE
    /\ selectedBillIds = {}
    /\ homeCalls = <<>>
    /\ families = <<>>
    /\ currentFamily = NoFamily
    /\ isModalVisible = FALSE
    /\ familyCalls = <<>>
    /\ resultFrom = "none"
    /\ totalCost = <<>>
    /\ familiesInBill = <<>>
    /\ billDate = NoDate
    /\ editingBillId = NullId
    /\ allSavedFamilies = <<>>
    /\ data = NoData
    /\ isSaved = FALSE
    /\ saveCalls = <<>>
    /\ allFamilies = <<>>
    /\ selectedFamilyIds = {}
    /\ extraServiceCosts = [id \in FamilyIds |-> <<>>]
    /\ batchTotalCost = <<>>
    /\ startDate = NoDate
    /\ endDate = NoDate
    /\ isCreating = FALSE
    /\ batchCall = IdleCall
    /\ newBills = <<>>

\* the first start: nothing is stored under 'bills'
Init ==
    /\ storeFamilies \in FamilyStores
    /\ storeBills = <<>>
    /\ InitScreens

(***************************************************************************)
(* Time and navigation                                                     *)
(***************************************************************************)
\* time passes
Tick ==
    /\ clock < Now0 + MaxClock
    /\ clock' = clock + 1
    /\ UNCHANGED <<homeVars, familyVars, resultFrom>>
    /\ UNCHANGED <<storeVars, screen, alert, inputVars, resultVars, batchVars>>

\* router.push('/input') from the home screen: InputScreen mounts with its
\* initial state and its focus effect loads the families
OpenInput ==
    /\ screen = "home"
    /\ alert = "none"
    /\ ~isLoading
    /\ ~isSummaryModalVisible
    /\ ~isEditMode
    /\ screen' = "input"
    /\ totalCost' = <<>>
    /\ familiesInBill' = <<>>
    /\ billDate' = DateFromDay(clock)
    /\ editingBillId' = NullId
    /\ allSavedFamilies' = storeFamilies
    /\ UNCHANGED <<homeVars, familyVars, resultFrom>>
    /\ UNCHANGED <<storeVars, clock, alert, resultVars, batchVars>>

\* router.push('/batch-create') from the home screen
OpenBatch ==
    /\ screen = "home"
    /\ alert = "none"
    /\ ~isLoading
    /\ ~isSummaryModalVisible
    /\ ~isEditMode
    /\ screen' = "batch"
    /\ allFamilies' = storeFamilies
    /\ selectedFamilyIds' = {}
    /\ extraServiceCosts' = [id \in FamilyIds |-> <<>>]
    /\ batchTotalCost' = <<>>
    /\ startDate' = NoDate
    /\ endDate' = NoDate
    /\ isCreating' = FALSE
    /\ batchCall' = IdleCall
    /\ newBills' = <<>>
    /\ UNCHANGED <<homeVars, familyVars, resultFrom>>
    /\ UNCHANGED <<storeVars, clock, alert, inputVars, resultVars>>

(***************************************************************************)
(* InputScreen (src/app/input.tsx)                                         *)
(***************************************************************************)
\* onChangeText={setTotalCost}
setTotalCost(text) ==
    /\ screen = "input"
    /\ alert = "none"
    /\ totalCost' = text
    /\ UNCHANGED <<homeVars, familyVars, resultFrom>>
    /\ UNCHANGED <<storeVars, clock, screen, alert, familiesInBill, billDate,
                   editingBillId, allSavedFamilies, resultVars, batchVars>>

onConfirmDatePicker(date) ==
    /\ screen = "input"
    /\ alert = "none"
    /\ billDate' = date
    /\ UNCHANGED <<homeVars, familyVars, resultFrom>>
    /\ UNCHANGED <<storeVars, clock, screen, alert, totalCost, familiesInBill,
                   editingBillId, allSavedFamilies, resultVars, batchVars>>

handleSelectFamily(i) ==
    /\ screen = "input"
    /\ alert = "none"
    /\ i \in 1..Len(allSavedFamilies)
    /\ LET family == allSavedFamilies[i]
       IN  /\ ~ \E k \in 1..Len(familiesInBill) : familiesInBill[k].id = family.id
           /\ familiesInBill' = Append(familiesInBill,
                  [id |-> family.id,
                   name |-> family.name,
                   lines |-> IntToString(Len(family.members)),
                   extraService |-> [hasService |-> FALSE, cost |-> <<>>]])
    /\ UNCHANGED <<homeVars, familyVars, resultFrom>>
    /\ UNCHANGED <<storeVars, clock, screen, alert, totalCost, billDate,
                   editingBillId, allSavedFamilies, resultVars, batchVars>>

removeFamilyFromBill(id) ==
    /\ screen = "input"
    /\ alert = "none"
    /\ \E k \in 1..Len(familiesInBill) : familiesInBill[k].id = id
    /\ familiesInBill' = SelectSeq(familiesInBill, LAMBDA family : family.id # id)
    /\ UNCHANGED <<homeVars, familyVars, resultFrom>>
    /\ UNCHANGED <<storeVars, clock, screen, alert, totalCost, billDate,
                   editingBillId, allSavedFamilies, resultVars, batchVars>>

\* the checkbox: updateFamilyExtraService(id, 'hasService', !hasService)
updateFamilyHasService(id) ==
    /\ screen = "input"
    /\ alert = "none"
    /\ \E k \in 1..Len(familiesInBill) : familiesInBill[k].id = id
    /\ familiesInBill' =
           [k \in 1..Len(familiesInBill) |->
               IF familiesInBill[k].id = id
               THEN [familiesInBill[k] EXCEPT
                        !.extraService.hasService = ~familiesInBill[k].extraService.hasService]
               ELSE familiesInBill[k]]
    /\ UNCHANGED <<homeVars, familyVars, resultFrom>>
    /\ UNCHANGED <<storeVars, clock, screen, alert, totalCost, billDate,
                   editingBillId, allSavedFamilies, resultVars, batchVars>>

\* the cost field, shown while hasService is set:
\* updateFamilyExtraService(id, 'cost', text)
updateFamilyCost(id, text) ==
    /\ screen = "input"
    /\ alert = "none"
    /\ \E k \in 1..Len(familiesInBill) :
           familiesInBill[k].id = id /\ familiesInBill[k].extraService.hasService
    /\ familiesInBill' =
           [k \in 1..Len(familiesInBill) |->
               IF familiesInBill[k].id = id
               THEN [familiesInBill[k] EXCEPT !.extraService.cost = text]
               ELSE familiesInBill[k]]
    /\ UNCHANGED <<homeVars, familyVars, resultFrom>>
    /\ UNCHANGED <<storeVars, clock, screen, alert, totalCost, billDate,
                   editingBillId, allSavedFamilies, resultVars, batchVars>>

\* a variant of ExtraCostOf that does not look at hasService
ExtraCostOfUngated(family) == OrZero(ParseFloat(family.extraService.cost))

\* the extra cost handleCalculate uses and stores for one family of the form
ExtraCostOf(family) ==
    IF family.extraService.hasService
    THEN OrZero(ParseFloat(family.extraService.cost))
    ELSE Zero

\* familiesWithParsedNumbers of handleCalculate
ParsedFamilies(fams) ==
    [k \in 1..Len(fams) |->
        [id |-> fams[k].id,
         name |-> fams[k].name,
         lines |-> OrZero(ParseInt(fams[k].lines)).n,
         extraService |-> [hasService |-> fams[k].extraService.hasService,
                           cost |-> ExtraCostOf(fams[k])]]]

\* a variant of CostPerLine whose guard is totalLines > 1
CostPerLineGuardOne(totalLineCost, totalLines) ==
    IF totalLines > 1 THEN Divide(totalLineCost, Num(totalLines)) ELSE Zero

\* a variant of CostPerLine that yields the line cost when there is no line
CostPerLineNoLines(totalLineCost, totalLines) ==
    IF totalLines > 0 THEN Divide(totalLineCost, Num(totalLines)) ELSE totalLineCost

\* a variant of CostPerLine that clamps a negative line cost to 0
CostPerLineClamped(totalLineCost, totalLines) ==
    IF totalLines > 0 /\ ~Less(totalLineCost, Zero)
    THEN Divide(totalLineCost, Num(totalLines)) ELSE Zero

\* costPerLine = totalLines > 0 ? totalLineCost / totalLines : 0
CostPerLine(totalLineCost, totalLines) ==
    IF totalLines > 0 THEN Divide(totalLineCost, Num(totalLines)) ELSE Zero

\* dataToPass of handleCalculate
Calculate(text, fams, date, billId) ==
    LET parsedTotalCost == OrZero(ParseFloat(text))
        parsed == ParsedFamilies(fams)
        totalExtraServiceCost ==
            SumNum([k \in 1..Len(parsed) |-> parsed[k].extraService.cost])
        totalLines == SumInt([k \in 1..Len(parsed) |-> parsed[k].lines])
        totalLineCost == Minus(parsedTotalCost, totalExtraServiceCost)
    IN  [id |-> billId,
         billMonth |-> IF date # NoDate THEN formatBillMonth(date) ELSE <<"N", "/", "A">>,
         totalCost |-> parsedTotalCost,
         costPerLine |-> CostPerLine(totalLineCost, totalLines),
         families |-> parsed]

\* the button is disabled while totalCost is empty or no family is chosen;
\* router.push('/result') mounts ResultScreen with the data
handleCalculate ==
    /\ screen = "input"
    /\ alert = "none"
    /\ totalCost # <<>>
    /\ Len(familiesInBill) # 0
    /\ data' = Calculate(totalCost, familiesInBill, billDate, editingBillId)
    /\ isSaved' = FALSE
    /\ saveCalls' = <<>>
    /\ screen' = "result"
    /\ resultFrom' = "input"
    /\ UNCHANGED <<homeVars, familyVars>>
    /\ UNCHANGED <<storeVars, clock, alert, inputVars, batchVars>>

\* the header's back button
InputBack ==
    /\ screen = "input"
    /\ alert = "none"
    /\ screen' = "home"
    /\ totalCost' = <<>>
    /\ familiesInBill' = <<>>
    /\ billDate' = NoDate
    /\ editingBillId' = NullId
    /\ allSavedFamilies' = <<>>
    /\ isLoading' = TRUE
    /\ UNCHANGED <<allBills, summaryVars, editVars, homeCalls, familyVars, resultFrom>>
    /\ UNCHANGED <<storeVars, clock, alert, resultVars, batchVars>>

(***************************************************************************)
(* ResultScreen (src/app/result.tsx)                                       *)
(***************************************************************************)
\* a variant of FamilyTotalCost that leaves the extra cost out
FamilyTotalCostLinesOnly(bill, k) ==
    Times(Num(bill.families[k].lines), bill.costPerLine)

\* the totals the screen shows, one per family of the bill
FamilyTotalCost(bill, k) ==
    LET family == bill.families[k]
        familyLineCost == Times(Num(family.lines), bill.costPerLine)
    IN  Plus(familyLineCost, family.extraService.cost)

\* a variant of SavedBills that moves a bill found in the store to the end
SavedBillsMovedToEnd(existingBills, bill, now) ==
    IF bill.id # NullId
    THEN Append(SelectSeq(existingBills, LAMBDA b : b.id # bill.id),
                IF \E k \in 1..Len(existingBills) : existingBills[k].id = bill.id
                THEN bill ELSE [bill EXCEPT !.id = now])
    ELSE Append(existingBills, [bill EXCEPT !.id = now])

\* a variant of SavedBills that appends nothing for a bill without an id
SavedBillsDraftDropped(existingBills, bill, now) ==
    IF \E k \in 1..Len(existingBills) : existingBills[k].id = bill.id
    THEN [k \in 1..Len(existingBills) |->
             IF existingBills[k].id = bill.id THEN bill ELSE existingBills[k]]
    ELSE existingBills

\* existingBills after the if of handleSaveBill; now is Date.now()
SavedBills(existingBills, bill, now) ==
    IF bill.id # NullId
    THEN IF \E k \in 1..Len(existingBills) : existingBills[k].id = bill.id
         THEN LET billIndex == CHOOSE k \in 1..Len(existingBills) :
                      /\ existingBills[k].id = bill.id
                      /\ \A j \in 1..(k - 1) : existingBills[j].id # bill.id
              IN  [existingBills EXCEPT ![billIndex] = bill]
         ELSE Append(existingBills, [bill EXCEPT !.id = now])
    ELSE Append(existingBills, [bill EXCEPT !.id = now])

\* the save button is pressed (it is disabled once isSaved is set): the
\* handler runs up to `await AsyncStorage.getItem('bills')`
handleSaveBill ==
    /\ screen = "result"
    /\ alert = "none"
    /\ ~isSaved
    /\ data # NoData
    /\ Len(saveCalls) < MaxInflight
    /\ saveCalls' = Append(saveCalls, [pc |-> "getItem", bills |-> <<>>])
    /\ UNCHANGED <<homeVars, familyVars, resultFrom>>
    /\ UNCHANGED <<storeVars, clock, screen, alert, inputVars, data, isSaved, batchVars>>

\* getItem resolves for the oldest invocation waiting for it: the handler
\* runs up to `await AsyncStorage.setItem(...)`
handleSaveBillGot ==
    /\ \E i \in 1..Len(saveCalls) :
        /\ saveCalls[i].pc = "getItem"
        /\ \A j \in 1..(i - 1) : saveCalls[j].pc # "getItem"
        /\ clock < Now0 + MaxClock
        /\ LET existingBills == SavedBills(storeBills, data, clock)
           IN  /\ Len(existingBills) <= MaxBills
               /\ saveCalls' = [saveCalls EXCEPT ![i] = [pc |-> "setItem", bills |-> existingBills]]
    /\ clock' = clock + 1
    /\ UNCHANGED <<homeVars, familyVars, resultFrom>>
    /\ UNCHANGED <<storeVars, screen, alert, inputVars, data, isSaved, batchVars>>

\* setItem resolves for the oldest invocation: the store holds the bills,
\* the handler sets isSaved and reports
handleSaveBillDone ==
    /\ saveCalls # <<>>
    /\ Head(saveCalls).pc = "setItem"
    /\ storeBills' = JSONBills(Head(saveCalls).bills)
    /\ isSaved' = TRUE
    /\ alert' = "saved"
    /\ saveCalls' = Tail(saveCalls)
    /\ UNCHANGED <<homeVars, familyVars, resultFrom>>
    /\ UNCHANGED <<storeFamilies, clock, screen, inputVars, data, batchVars>>

\* setItem rejects: the catch block reports
handleSaveBillFailed ==
    /\ saveCalls # <<>>
    /\ Head(saveCalls).pc = "setItem"
    /\ alert' = "saveFailed"
    /\ saveCalls' = Tail(saveCalls)
    /\ UNCHANGED <<homeVars, familyVars, resultFrom>>
    /\ UNCHANGED <<storeVars, clock, screen, inputVars, data, isSaved, batchVars>>

\* the header's back button, with no save in flight: ResultScreen unmounts
ResultBack ==
    /\ screen = "result"
    /\ alert = "none"
    /\ saveCalls = <<>>
    /\ screen' = resultFrom
    /\ resultFrom' = "none"
    /\ data' = NoData
    /\ isSaved' = FALSE
    /\ isLoading' = (resultFrom = "home")
    /\ UNCHANGED <<allBills, summaryVars, editVars, homeCalls, familyVars>>
    /\ UNCHANGED <<storeVars, clock, alert, inputVars, saveCalls, batchVars>>

\* the button of an alert that only reports
DismissAlert ==
    /\ alert \notin {"none", "created"}
    /\ alert' = "none"
    /\ UNCHANGED <<homeVars, familyVars, resultFrom>>
    /\ UNCHANGED <<storeVars, clock, screen, inputVars, resultVars, batchVars>>

(***************************************************************************)
(* BatchCreateScreen (src/app/batch-create.tsx)                            *)
(***************************************************************************)
toggleFamilySelection(familyId) ==
    /\ screen = "batch"
    /\ alert = "none"
    /\ \E k \in 1..Len(allFamilies) : allFamilies[k].id = familyId
    /\ selectedFamilyIds' =
           IF familyId \in selectedFamilyIds
           THEN selectedFamilyIds \ {familyId}
           ELSE selectedFamilyIds \cup {familyId}
    /\ UNCHANGED <<homeVars, familyVars, resultFrom>>
    /\ UNCHANGED <<storeVars, clock, screen, alert, inputVars, resultVars,
                   allFamilies, extraServiceCosts, batchTotalCost, startDate,
                   endDate, isCreating, batchCall, newBills>>

\* the field is shown for the selected families
handleExtraServiceChange(familyId, cost) ==
    /\ screen = "batch"
    /\ alert = "none"
    /\ familyId \in selectedFamilyIds
    /\ extraServiceCosts' = [extraServiceCosts EXCEPT ![familyId] = cost]
    /\ UNCHANGED <<homeVars, familyVars, resultFrom>>
    /\ UNCHANGED <<storeVars, clock, screen, alert, inputVars, resultVars,
                   allFamilies, selectedFamilyIds, batchTotalCost, startDate,
                   endDate, isCreating, batchCall, newBills>>

\* onChangeText={setTotalCost} of the batch screen
setBatchTotalCost(text) ==
    /\ screen = "batch"
    /\ alert = "none"
    /\ batchTotalCost' = text
    /\ UNCHANGED <<homeVars, familyVars, resultFrom>>
    /\ UNCHANGED <<storeVars, clock, screen, alert, inputVars, resultVars,
                   allFamilies, selectedFamilyIds, extraServiceCosts, startDate,
                   endDate, isCreating, batchCall, newBills>>

setStartDate(date) ==
    /\ screen = "batch"
    /\ alert = "none"
    /\ startDate' = date
    /\ UNCHANGED <<homeVars, familyVars, resultFrom>>
    /\ UNCHANGED <<storeVars, clock, screen, alert, inputVars, resultVars,
                   allFamilies, selectedFamilyIds, extraServiceCosts,
                   batchTotalCost, endDate, isCreating, batchCall, newBills>>

setEndDate(date) ==
    /\ screen = "batch"
    /\ alert = "none"
    /\ endDate' = date
    /\ UNCHANGED <<homeVars, familyVars, resultFrom>>
    /\ UNCHANGED <<storeVars, clock, screen, alert, inputVars, resultVars,
                   allFamilies, selectedFamilyIds, extraServiceCosts,
                   batchTotalCost, startDate, isCreating, batchCall, newBills>>

\* selectedFamilies
SelectedFamilies(fams, ids) == SelectSeq(fams, LAMBDA f : f.id \in ids)

\* extraCost of one selected family
BatchExtraCost(costs, f) == OrZero(ParseFloat(costs[f.id]))

\* a variant of FamiliesForBill that counts one line per family
FamiliesForBillOneLine(fams, ids, costs) ==
    LET selectedFamilies == SelectSeq(fams, LAMBDA f : f.id \in ids)
    IN  [k \in 1..Len(selectedFamilies) |->
            LET f == selectedFamilies[k]
                extraCost == OrZero(ParseFloat(costs[f.id]))
            IN  [id |-> f.id,
                 name |-> f.name,
                 lines |-> 1,
                 extraService |-> [hasService |-> Greater(extraCost, Zero),
                                   cost |-> extraCost]]]

\* familiesForBill
FamiliesForBill(fams, ids, costs) ==
    LET selectedFamilies == SelectedFamilies(fams, ids)
    IN  [k \in 1..Len(selectedFamilies) |->
            LET f == selectedFamilies[k]
                extraCost == BatchExtraCost(costs, f)
            IN  [id |-> f.id,
                 name |-> f.name,
                 lines |-> Len(f.members),
                 extraService |-> [hasService |-> Greater(extraCost, Zero),
                                   cost |-> extraCost]]]

\* totalLineCost = parsedTotalCost - totalExtraServiceCost
BatchTotalLineCost(text, familiesForBill) ==
    Minus(OrZero(ParseFloat(text)),
          SumNum([k \in 1..Len(familiesForBill) |-> familiesForBill[k].extraService.cost]))

\* the dates currentDate takes in the while loop
RECURSIVE BatchDates(_, _)
BatchDates(currentDate, end) ==
    IF getTime(currentDate) <= getTime(end)
    THEN <<currentDate>> \o BatchDates(setMonth(currentDate, currentDate.month + 1), end)
    ELSE <<>>

\* newBills; now is Date.now(), read in every iteration of a loop that runs
\* within one reading of the clock
GenerateBills(text, familiesForBill, start, end, now) ==
    LET totalLineCost == BatchTotalLineCost(text, familiesForBill)
        totalLines == SumInt([k \in 1..Len(familiesForBill) |-> familiesForBill[k].lines])
        costPerLine == CostPerLine(totalLineCost, totalLines)
        dates == BatchDates(start, end)
    IN  [k \in 1..Len(dates) |->
            [id |-> now + getTime(dates[k]),
             billMonth |-> formatBillMonth(dates[k]),
             totalCost |-> OrZero(ParseFloat(text)),
             costPerLine |-> costPerLine,
             families |-> familiesForBill]]

\* a variant of BatchIncomplete that does not look at totalCost
BatchIncompleteNoTotal ==
    \/ Cardinality(selectedFamilyIds) = 0
    \/ startDate = NoDate
    \/ endDate = NoDate

\* the first guard of handleBatchCreate
BatchIncomplete ==
    \/ Cardinality(selectedFamilyIds) = 0
    \/ batchTotalCost = <<>>
    \/ startDate = NoDate
    \/ endDate = NoDate

\* the second guard: endDate < startDate
BatchDateError == getTime(endDate) < getTime(startDate)

\* a variant of BatchAmountError that leaves the extra costs out
BatchAmountErrorTotalOnly == Less(OrZero(ParseFloat(batchTotalCost)), Zero)

\* the third guard: totalLineCost < 0
BatchAmountError ==
    Less(BatchTotalLineCost(batchTotalCost,
             FamiliesForBill(allFamilies, selectedFamilyIds, extraServiceCosts)),
         Zero)

\* the button is pressed (it is disabled while isCreating): the handler
\* runs up to `await AsyncStorage.getItem('bills')`, or returns early
handleBatchCreate ==
    /\ screen = "batch"
    /\ alert = "none"
    /\ ~isCreating
    /\ IF BatchIncomplete
       THEN /\ alert' = "incomplete"
            /\ newBills' = <<>>
            /\ UNCHANGED <<clock, isCreating, batchCall>>
       ELSE IF BatchDateError
       THEN /\ alert' = "dateError"
            /\ newBills' = <<>>
            /\ UNCHANGED <<clock, isCreating, batchCall>>
       ELSE IF BatchAmountError
       THEN /\ alert' = "amountError"
            /\ isCreating' = FALSE
            /\ newBills' = <<>>
            /\ UNCHANGED <<clock, batchCall>>
       ELSE /\ clock < Now0 + MaxClock
            /\ newBills' = GenerateBills(batchTotalCost,
                               FamiliesForBill(allFamilies, selectedFamilyIds, extraServiceCosts),
                               startDate, endDate, clock)
            /\ Len(newBills') <= MaxBills
            /\ batchCall' = [pc |-> "getItem", bills |-> newBills']
            /\ isCreating' = TRUE
            /\ clock' = clock + 1
            /\ UNCHANGED alert
    /\ UNCHANGED <<homeVars, familyVars, resultFrom>>
    /\ UNCHANGED <<storeVars, screen, inputVars, resultVars, allFamilies,
                   selectedFamilyIds, extraServiceCosts, batchTotalCost,
                   startDate, endDate>>

\* getItem resolves: updatedBills = [...existingBills, ...newBills], and the
\* handler runs up to `await AsyncStorage.setItem(...)`
handleBatchCreateGot ==
    /\ batchCall.pc = "getItem"
    /\ Len(storeBills) + Len(batchCall.bills) <= MaxBills
    /\ batchCall' = [pc |-> "setItem", bills |-> storeBills \o batchCall.bills]
    /\ UNCHANGED <<homeVars, familyVars, resultFrom>>
    /\ UNCHANGED <<storeVars, clock, screen, alert, inputVars, resultVars,
                   allFamilies, selectedFamilyIds, extraServiceCosts,
                   batchTotalCost, startDate, endDate, isCreating, newBills>>

\* setItem resolves: the store holds the bills, the handler reports and the
\* finally block clears isCreating
handleBatchCreateDone ==
    /\ batchCall.pc = "setItem"
    /\ storeBills' = JSONBills(batchCall.bills)
    /\ alert' = "created"
    /\ isCreating' = FALSE
    /\ batchCall' = IdleCall
    /\ UNCHANGED <<homeVars, familyVars, resultFrom>>
    /\ UNCHANGED <<storeFamilies, clock, screen, inputVars, resultVars,
                   allFamilies, selectedFamilyIds, extraServiceCosts,
                   batchTotalCost, startDate, endDate, newBills>>

\* setItem rejects: the catch block reports, the finally block clears isCreating
handleBatchCreateFailed ==
    /\ batchCall.pc = "setItem"
    /\ alert' = "createFailed"
    /\ isCreating' = FALSE
    /\ batchCall' = IdleCall
    /\ UNCHANGED <<homeVars, familyVars, resultFrom>>
    /\ UNCHANGED <<storeVars, clock, screen, inputVars, resultVars,
                   allFamilies, selectedFamilyIds, extraServiceCosts,
                   batchTotalCost, startDate, endDate, newBills>>

\* router.back(), from the button of the success alert or from the header
\* with no run in flight: BatchCreateScreen unmounts
BatchBack ==
    /\ screen = "batch"
    /\ alert \in {"none", "created"}
    /\ batchCall = IdleCall
    /\ screen' = "home"
    /\ alert' = "none"
    /\ allFamilies' = <<>>
    /\ selectedFamilyIds' = {}
    /\ extraServiceCosts' = [id \in FamilyIds |-> <<>>]
    /\ batchTotalCost' = <<>>
    /\ startDate' = NoDate
    /\ endDate' = NoDate
    /\ isCreating' = FALSE
    /\ newBills' = <<>>
    /\ isLoading' = TRUE
    /\ UNCHANGED <<allBills, summaryVars, editVars, homeCalls, familyVars, resultFrom>>
    /\ UNCHANGED <<storeVars, clock, inputVars, resultVars, batchCall>>

(***************************************************************************)
(* HomeScreen (src/app/index.tsx)                                          *)
(***************************************************************************)
\* the UTF-16 code unit of a character the model uses; "Y" stands for the
\* year sign (U+5E74) and "M" for the month sign (U+6708)
CharCode(c) ==
    CASE c = " " -> 32
      [] c = "-" -> 45
      [] c = "." -> 46
      [] c = "/" -> 47
      [] IsDigit(c) -> 48 + DigitVal(c)
      [] c = "A" -> 65
      [] c = "B" -> 66
      [] c = "N" -> 78
      [] c = "a" -> 97
      [] c = "x" -> 120
      [] c = "Y" -> 24180
      [] c = "M" -> 26376

\* a < b and a <= b of JavaScript on strings: by code units, a proper
\* prefix first
StringLess(a, b) ==
    \/ Len(a) < Len(b) /\ SubSeq(b, 1, Len(a)) = a
    \/ \E k \in 1..Len(a) :
          /\ k <= Len(b)
          /\ SubSeq(a, 1, k - 1) = SubSeq(b, 1, k - 1)
          /\ CharCode(a[k]) < CharCode(b[k])
StringLessEq(a, b) == a = b \/ StringLess(a, b)

\* a.localeCompare(b): negative, zero or positive.  The collation orders
\* the characters of the bill month tokens as their code units do (space,
\* punctuation, digits, Latin letters, Han characters)
localeCompare(a, b) ==
    IF a = b THEN 0 ELSE IF StringLess(a, b) THEN -1 ELSE 1

\* loadedBills.sort((a, b) => b.billMonth.localeCompare(a.billMonth)): the
\* sort is stable, latest token first
RECURSIVE SortBills(_)
SortBills(s) ==
    IF s = <<>> THEN <<>>
    ELSE LET rest == SortBills(SubSeq(s, 1, Len(s) - 1))
             x == s[Len(s)]
             k == Cardinality({ j \in 1..Len(rest) :
                      localeCompare(x.billMonth, rest[j].billMonth) <= 0 })
         IN  SubSeq(rest, 1, k) \o <<x>> \o SubSeq(rest, k + 1, Len(rest))

\* loadData of the focus effect, from its two reads on: the spinner is
\* replaced by the list of the stored bills
loadData ==
    /\ screen = "home"
    /\ isLoading
    /\ allBills' = SortBills(storeBills)
    /\ isLoading' = FALSE
    /\ UNCHANGED <<summaryVars, editVars, homeCalls, familyVars, resultFrom>>
    /\ UNCHANGED <<storeVars, clock, screen, alert, inputVars, resultVars, batchVars>>

\* onConfirm of the two date pickers of the summary section
setSummaryStartDate(date) ==
    /\ screen = "home"
    /\ alert = "none"
    /\ ~isLoading
    /\ ~isSummaryModalVisible
    /\ summaryStartDate' = date
    /\ UNCHANGED <<isLoading, allBills, summaryEndDate, summaryData,
                   isSummaryModalVisible, summaryBills, editVars, homeCalls,
                   familyVars, resultFrom>>
    /\ UNCHANGED <<storeVars, clock, screen, alert, inputVars, resultVars, batchVars>>

setSummaryEndDate(date) ==
    /\ screen = "home"
    /\ alert = "none"
    /\ ~isLoading
    /\ ~isSummaryModalVisible
    /\ summaryEndDate' = date
    /\ UNCHANGED <<isLoading, allBills, summaryStartDate, summaryData,
                   isSummaryModalVisible, summaryBills, editVars, homeCalls,
                   familyVars, resultFrom>>
    /\ UNCHANGED <<storeVars, clock, screen, alert, inputVars, resultVars, batchVars>>

\* a variant of BillsInRange that keeps every bill
BillsInRangeUnfiltered(bills, start, end) == bills

\* the filter of handleCalculateSummary: the bills whose token lies between
\* the tokens of the two dates, as strings
BillsInRange(bills, start, end) ==
    LET startMonthStr == formatBillMonth(start)
        endMonthStr == formatBillMonth(end)
    IN  SelectSeq(bills, LAMBDA bill :
            /\ StringLessEq(startMonthStr, bill.billMonth)
            /\ StringLessEq(bill.billMonth, endMonthStr))

\* a variant of SummaryName that keys a family by its id
SummaryNameById(family) == IntToString(family.id)

\* family.name || `<family sign> ${family.id}`; "F" stands for the two
\* characters of the family sign
SummaryName(family) ==
    IF family.name # <<>> THEN family.name
    ELSE <<"F", " ">> \o IntToString(family.id)

\* a variant of SummaryFamilyCost that leaves the extra cost out
SummaryFamilyCostLinesOnly(bill, family) ==
    Times(Num(family.lines), bill.costPerLine)

\* a variant of SummaryFamilyCost that adds the extra cost only when the
\* service is enabled
SummaryFamilyCostGated(bill, family) ==
    IF family.extraService.hasService
    THEN Plus(Times(Num(family.lines), bill.costPerLine), family.extraService.cost)
    ELSE Times(Num(family.lines), bill.costPerLine)

\* familyTotalCost of handleCalculateSummary
SummaryFamilyCost(bill, family) ==
    Plus(Times(Num(family.lines), bill.costPerLine), family.extraService.cost)

\* the participations the two nested forEach of handleCalculateSummary
\* visit, in order: for each bill, each of its families
RECURSIVE Participations(_)
Participations(bills) ==
    IF bills = <<>> THEN <<>>
    ELSE LET bill == bills[Len(bills)]
         IN  Participations(SubSeq(bills, 1, Len(bills) - 1)) \o
             [k \in 1..Len(bill.families) |->
                 [name |-> SummaryName(bill.families[k]),
                  month |-> bill.billMonth,
                  cost |-> SummaryFamilyCost(bill, bill.families[k])]]

\* the property names of `summary` in the order of their creation
RECURSIVE InsertionKeys(_)
InsertionKeys(p) ==
    IF p = <<>> THEN <<>>
    ELSE LET front == InsertionKeys(SubSeq(p, 1, Len(p) - 1))
             name == p[Len(p)].name
         IN  IF \E j \in 1..Len(front) : front[j] = name
             THEN front ELSE Append(front, name)

\* a property name that is an array index: the canonical decimal string of
\* an integer in 0 .. 2^32 - 2
\* a < b for two canonical decimal strings, as numbers
DecimalLess(a, b) ==
    \/ Len(a) < Len(b)
    \/ Len(a) = Len(b) /\ StringLess(a, b)

IsArrayIndex(key) ==
    /\ Len(key) > 0
    /\ DigitRun(key, 1) = Len(key)
    /\ Len(key) > 1 => key[1] # "0"
    /\ DecimalLess(key, <<"4", "2", "9", "4", "9", "6", "7", "2", "9", "5">>)

RECURSIVE AscendingIndices(_)
AscendingIndices(keys) ==
    IF keys = {} THEN <<>>
    ELSE LET least == CHOOSE k \in keys : \A o \in keys : ~DecimalLess(o, k)
         IN  <<least>> \o AscendingIndices(keys \ {least})

\* Object.keys(summary) of an ordinary object whose properties were created
\* in the order `created`: the array indices in ascending numeric order,
\* then the other names in the order of their creation
ObjectKeys(created) ==
    AscendingIndices({ created[j] : j \in { i \in 1..Len(created) : IsArrayIndex(created[i]) } })
    \o SelectSeq(created, LAMBDA key : ~IsArrayIndex(key))

\* a variant of SummaryOf whose totalCost is the cost of the name's last
\* participation instead of the sum
SummaryOfLastCost(bills) ==
    LET p == Participations(bills)
        keys == ObjectKeys(InsertionKeys(p))
    IN  [i \in 1..Len(keys) |->
            LET mine == SelectSeq(p, LAMBDA x : x.name = keys[i])
            IN  [name |-> keys[i],
                 extraServiceCost |-> Zero,
                 lines |-> 0,
                 monthlyBill |-> Zero,
                 totalCost |-> mine[Len(mine)].cost,
                 monthlyBreakdown |->
                     [j \in 1..Len(mine) |->
                         [month |-> mine[j].month, cost |-> mine[j].cost]]]]

\* summaryArray of handleCalculateSummary for the filtered bills
SummaryOf(bills) ==
    LET p == Participations(bills)
        keys == ObjectKeys(InsertionKeys(p))
    IN  [i \in 1..Len(keys) |->
            LET mine == SelectSeq(p, LAMBDA x : x.name = keys[i])
            IN  [name |-> keys[i],
                 extraServiceCost |-> Zero,
                 lines |-> 0,
                 monthlyBill |-> Zero,
                 totalCost |-> SumNum([j \in 1..Len(mine) |-> mine[j].cost]),
                 monthlyBreakdown |->
                     [j \in 1..Len(mine) |->
                         [month |-> mine[j].month, cost |-> mine[j].cost]]]]

\* handleCalculateSummary: two notices, else the summary and its modal
handleCalculateSummary ==
    /\ screen = "home"
    /\ alert = "none"
    /\ ~isLoading
    /\ ~isSummaryModalVisible
    /\ IF summaryStartDate = NoDate \/ summaryEndDate = NoDate \/ Len(allBills) = 0
       THEN /\ alert' = "summaryIncomplete"
            /\ UNCHANGED <<summaryData, isSummaryModalVisible, summaryBills>>
       ELSE LET filteredBills == BillsInRange(allBills, summaryStartDate, summaryEndDate)
            IN  IF Len(filteredBills) = 0
                THEN /\ alert' = "noData"
                     /\ UNCHANGED <<summaryData, isSummaryModalVisible, summaryBills>>
                ELSE /\ summaryData' = SummaryOf(filteredBills)
                     /\ summaryBills' = filteredBills
                     /\ isSummaryModalVisible' = TRUE
                     /\ UNCHANGED alert
    /\ UNCHANGED <<isLoading, allBills, summaryStartDate, summaryEndDate,
                   editVars, homeCalls, familyVars, resultFrom>>
    /\ UNCHANGED <<storeVars, clock, screen, inputVars, resultVars, batchVars>>

\* onDismiss of the summary modal and its close button
closeSummaryModal ==
    /\ screen = "home"
    /\ alert = "none"
    /\ isSummaryModalVisible
    /\ isSummaryModalVisible' = FALSE
    /\ UNCHANGED <<isLoading, allBills, summaryStartDate, summaryEndDate,
                   summaryData, summaryBills, editVars, homeCalls,
                   familyVars, resultFrom>>
    /\ UNCHANGED <<storeVars, clock, screen, alert, inputVars, resultVars, batchVars>>

\* a bill of the list is pressed outside edit mode: ResultScreen mounts with
\* JSON.parse(JSON.stringify(item))
viewBill(k) ==
    /\ screen = "home"
    /\ alert = "none"
    /\ ~isLoading
    /\ ~isSummaryModalVisible
    /\ ~isEditMode
    /\ k \in 1..Len(allBills)
    /\ screen' = "result"
    /\ resultFrom' = "home"
    /\ data' = JSONBills(<<allBills[k]>>)[1]
    /\ isSaved' = FALSE
    /\ saveCalls' = <<>>
    /\ UNCHANGED <<homeVars, familyVars>>
    /\ UNCHANGED <<storeVars, clock, alert, inputVars, batchVars>>

\* data.families.map(...) of the effect of InputScreen: the numbers of the
\* stored families become the texts of the form
FamiliesWithStringValues(billFamilies) ==
    [j \in 1..Len(billFamilies) |->
        [id |-> billFamilies[j].id,
         name |-> billFamilies[j].name,
         lines |-> NumberToString(Num(billFamilies[j].lines)),
         extraService |->
            [hasService |-> billFamilies[j].extraService.hasService,
             cost |-> NumberToString(billFamilies[j].extraService.cost)]]]

\* the long press menu's modify entry: InputScreen mounts with
\* params.billToModify and its effect fills the form, keeping the bill's id;
\* parseBillMonth throws on a token without a space ('N/A') and the screen
\* fails to render
handleModifyBill(k) ==
    /\ screen = "home"
    /\ alert = "none"
    /\ ~isLoading
    /\ ~isSummaryModalVisible
    /\ ~isEditMode
    /\ k \in 1..Len(allBills)
    /\ LET billToModify == JSONBills(<<allBills[k]>>)[1]
       IN  IF IndexOf(billToModify.billMonth, " ") = 0
           THEN /\ screen' = "error"
                /\ UNCHANGED inputVars
           ELSE /\ screen' = "input"
                /\ editingBillId' = billToModify.id
                /\ totalCost' = NumberToString(billToModify.totalCost)
                /\ billDate' = parseBillMonth(billToModify.billMonth)
                /\ familiesInBill' = FamiliesWithStringValues(billToModify.families)
                /\ allSavedFamilies' = storeFamilies
    /\ UNCHANGED <<homeVars, familyVars, resultFrom>>
    /\ UNCHANGED <<storeVars, clock, alert, resultVars, batchVars>>

\* a variant of handleDuplicateBill that keeps the id of the bill
handleDuplicateBillKeepsId(k) ==
    /\ screen = "home"
    /\ alert = "none"
    /\ ~isLoading
    /\ ~isSummaryModalVisible
    /\ ~isEditMode
    /\ k \in 1..Len(allBills)
    /\ screen' = "input"
    /\ editingBillId' = allBills[k].id
    /\ totalCost' = NumberToString(allBills[k].totalCost)
    /\ billDate' = DateFromDay(clock)
    /\ familiesInBill' = FamiliesWithStringValues(allBills[k].families)
    /\ allSavedFamilies' = storeFamilies
    /\ UNCHANGED <<homeVars, familyVars, resultFrom>>
    /\ UNCHANGED <<storeVars, clock, alert, resultVars, batchVars>>

\* the long press menu's duplicate entry: InputScreen mounts with
\* params.duplicatedData ({...bill, id: null, billMonth: null}); its effect
\* fills the form and leaves the date at today
handleDuplicateBill(k) ==
    /\ screen = "home"
    /\ alert = "none"
    /\ ~isLoading
    /\ ~isSummaryModalVisible
    /\ ~isEditMode
    /\ k \in 1..Len(allBills)
    /\ LET duplicatedData == JSONBills(<<allBills[k]>>)[1]
       IN  /\ screen' = "input"
           /\ editingBillId' = NullId
           /\ totalCost' = NumberToString(duplicatedData.totalCost)
           /\ billDate' = DateFromDay(clock)
           /\ familiesInBill' = FamiliesWithStringValues(duplicatedData.families)
           /\ allSavedFamilies' = storeFamilies
    /\ UNCHANGED <<homeVars, familyVars, resultFrom>>
    /\ UNCHANGED <<storeVars, clock, alert, resultVars, batchVars>>

\* the header's edit button, shown while allBills is not empty
toggleEditMode ==
    /\ screen = "home"
    /\ alert = "none"
    /\ ~isSummaryModalVisible
    /\ Len(allBills) > 0
    /\ isEditMode' = ~isEditMode
    /\ selectedBillIds' = {}
    /\ UNCHANGED <<isLoading, allBills, summaryVars, homeCalls, familyVars, resultFrom>>
    /\ UNCHANGED <<storeVars, clock, screen, alert, inputVars, resultVars, batchVars>>

\* a bill of the list is pressed in edit mode
toggleBillSelection(billId) ==
    /\ screen = "home"
    /\ alert = "none"
    /\ ~isLoading
    /\ ~isSummaryModalVisible
    /\ isEditMode
    /\ \E k \in 1..Len(allBills) : allBills[k].id = billId
    /\ selectedBillIds' = IF billId \in selectedBillIds
                          THEN selectedBillIds \ {billId}
                          ELSE selectedBillIds \cup {billId}
    /\ UNCHANGED <<isLoading, allBills, summaryVars, isEditMode, homeCalls,
                   familyVars, resultFrom>>
    /\ UNCHANGED <<storeVars, clock, screen, alert, inputVars, resultVars, batchVars>>

\* handleDeleteBill, the deletion confirmed: the handler runs up to
\* `await AsyncStorage.setItem(...)`; its closure holds the bill to delete
\* (ids) and newBills (bills)
handleDeleteBill(k) ==
    /\ screen = "home"
    /\ alert = "none"
    /\ ~isLoading
    /\ ~isSummaryModalVisible
    /\ ~isEditMode
    /\ k \in 1..Len(allBills)
    /\ Len(homeCalls) < MaxInflight
    /\ homeCalls' = Append(homeCalls,
           [bulk |-> FALSE,
            ids |-> {allBills[k].id},
            bills |-> SelectSeq(allBills, LAMBDA b : b.id # allBills[k].id)])
    /\ UNCHANGED <<isLoading, allBills, summaryVars, editVars, familyVars, resultFrom>>
    /\ UNCHANGED <<storeVars, clock, screen, alert, inputVars, resultVars, batchVars>>

\* handleBulkDelete, the deletion confirmed; the button is disabled while
\* nothing is selected
handleBulkDelete ==
    /\ screen = "home"
    /\ alert = "none"
    /\ ~isLoading
    /\ ~isSummaryModalVisible
    /\ isEditMode
    /\ selectedBillIds # {}
    /\ Len(homeCalls) < MaxInflight
    /\ homeCalls' = Append(homeCalls,
           [bulk |-> TRUE,
            ids |-> selectedBillIds,
            bills |-> SelectSeq(allBills, LAMBDA b : b.id \notin selectedBillIds)])
    /\ UNCHANGED <<isLoading, allBills, summaryVars, editVars, familyVars, resultFrom>>
    /\ UNCHANGED <<storeVars, clock, screen, alert, inputVars, resultVars, batchVars>>

\* setItem resolves for the oldest deletion: the store holds newBills,
\* setAllBills(newBills) and, for a bulk deletion, toggleEditMode() of the
\* render that showed the dialog (edit mode was on)
handleDeleteDone ==
    /\ homeCalls # <<>>
    /\ storeBills' = JSONBills(Head(homeCalls).bills)
    /\ allBills' = Head(homeCalls).bills
    /\ IF Head(homeCalls).bulk
       THEN isEditMode' = FALSE /\ selectedBillIds' = {}
       ELSE UNCHANGED <<isEditMode, selectedBillIds>>
    /\ homeCalls' = Tail(homeCalls)
    /\ UNCHANGED <<isLoading, summaryVars, familyVars, resultFrom>>
    /\ UNCHANGED <<storeFamilies, clock, screen, alert, inputVars, resultVars, batchVars>>

\* a variant of handleDeleteFailed that applies the deletion to the list and
\* leaves edit mode although the write failed
handleDeleteFailedApplied ==
    /\ homeCalls # <<>>
    /\ alert' = "deleteFailed"
    /\ allBills' = Head(homeCalls).bills
    /\ isEditMode' = FALSE
    /\ selectedBillIds' = {}
    /\ homeCalls' = Tail(homeCalls)
    /\ UNCHANGED <<isLoading, summaryVars, familyVars, resultFrom>>
    /\ UNCHANGED <<storeVars, clock, screen, inputVars, resultVars, batchVars>>

\* setItem rejects for the oldest deletion: the catch block reports
handleDeleteFailed ==
    /\ homeCalls # <<>>
    /\ alert' = "deleteFailed"
    /\ homeCalls' = Tail(homeCalls)
    /\ UNCHANGED <<isLoading, allBills, summaryVars, editVars, familyVars, resultFrom>>
    /\ UNCHANGED <<storeVars, clock, screen, inputVars, resultVars, batchVars>>

(***************************************************************************)
(* FamiliesScreen (src/unnamed/part_001)                                   *)
(***************************************************************************)
\* s.trim() for texts whose only white space is the space
RECURSIVE TrimStart(_)
TrimStart(s) == IF s # <<>> /\ s[1] = " " THEN TrimStart(Tail(s)) ELSE s
RECURSIVE TrimEnd(_)
TrimEnd(s) ==
    IF s # <<>> /\ s[Len(s)] = " " THEN TrimEnd(SubSeq(s, 1, Len(s) - 1)) ELSE s
Trim(s) == TrimEnd(TrimStart(s))

\* router.push('/families') from the header of the home screen, shown
\* outside edit mode: FamiliesScreen mounts and its focus effect loads
OpenFamilies ==
    /\ screen = "home"
    /\ alert = "none"
    /\ ~isSummaryModalVisible
    /\ ~isEditMode
    /\ screen' = "families"
    /\ families' = storeFamilies
    /\ currentFamily' = NoFamily
    /\ isModalVisible' = FALSE
    /\ familyCalls' = <<>>
    /\ UNCHANGED <<homeVars, resultFrom>>
    /\ UNCHANGED <<storeVars, clock, alert, inputVars, resultVars, batchVars>>

\* openModal() from the FAB: a new family with one blank member
openModalNew ==
    /\ screen = "families"
    /\ alert = "none"
    /\ ~isModalVisible
    /\ clock < Now0 + MaxClock
    /\ currentFamily' = [id |-> clock, name |-> <<>>,
                         members |-> <<[id |-> clock, name |-> <<>>]>>]
    /\ isModalVisible' = TRUE
    /\ clock' = clock + 1
    /\ UNCHANGED <<homeVars, families, familyCalls, resultFrom>>
    /\ UNCHANGED <<storeVars, screen, alert, inputVars, resultVars, batchVars>>

\* openModal(item) from the pencil of a family of the list
openModal(i) ==
    /\ screen = "families"
    /\ alert = "none"
    /\ ~isModalVisible
    /\ i \in 1..Len(families)
    /\ currentFamily' = families[i]
    /\ isModalVisible' = TRUE
    /\ UNCHANGED <<homeVars, families, familyCalls, resultFrom>>
    /\ UNCHANGED <<storeVars, clock, screen, alert, inputVars, resultVars, batchVars>>

closeModal ==
    /\ screen = "families"
    /\ alert = "none"
    /\ isModalVisible
    /\ isModalVisible' = FALSE
    /\ currentFamily' = NoFamily
    /\ UNCHANGED <<homeVars, families, familyCalls, resultFrom>>
    /\ UNCHANGED <<storeVars, clock, screen, alert, inputVars, resultVars, batchVars>>

\* onChangeText of the name field of the modal
setFamilyName(text) ==
    /\ screen = "families"
    /\ alert = "none"
    /\ isModalVisible
    /\ currentFamily' = [currentFamily EXCEPT !.name = text]
    /\ UNCHANGED <<homeVars, families, isModalVisible, familyCalls, resultFrom>>
    /\ UNCHANGED <<storeVars, clock, screen, alert, inputVars, resultVars, batchVars>>

updateMemberName(memberId, name) ==
    /\ screen = "families"
    /\ alert = "none"
    /\ isModalVisible
    /\ \E k \in 1..Len(currentFamily.members) : currentFamily.members[k].id = memberId
    /\ currentFamily' = [currentFamily EXCEPT !.members =
           [k \in 1..Len(currentFamily.members) |->
               IF currentFamily.members[k].id = memberId
               THEN [currentFamily.members[k] EXCEPT !.name = name]
               ELSE currentFamily.members[k]]]
    /\ UNCHANGED <<homeVars, families, isModalVisible, familyCalls, resultFrom>>
    /\ UNCHANGED <<storeVars, clock, screen, alert, inputVars, resultVars, batchVars>>

addMemberField ==
    /\ screen = "families"
    /\ alert = "none"
    /\ isModalVisible
    /\ Len(currentFamily.members) < MaxMembers
    /\ clock < Now0 + MaxClock
    /\ currentFamily' = [currentFamily EXCEPT !.members =
           Append(currentFamily.members, [id |-> clock, name |-> <<>>])]
    /\ clock' = clock + 1
    /\ UNCHANGED <<homeVars, families, isModalVisible, familyCalls, resultFrom>>
    /\ UNCHANGED <<storeVars, screen, alert, inputVars, resultVars, batchVars>>

removeMemberField(memberId) ==
    /\ screen = "families"
    /\ alert = "none"
    /\ isModalVisible
    /\ \E k \in 1..Len(currentFamily.members) : currentFamily.members[k].id = memberId
    /\ currentFamily' = [currentFamily EXCEPT !.members =
           SelectSeq(currentFamily.members, LAMBDA m : m.id # memberId)]
    /\ UNCHANGED <<homeVars, families, isModalVisible, familyCalls, resultFrom>>
    /\ UNCHANGED <<storeVars, clock, screen, alert, inputVars, resultVars, batchVars>>

\* newFamilies of handleSaveFamily
SavedFamilies(fams, current) ==
    LET finalFamily == [current EXCEPT !.members =
                           SelectSeq(current.members, LAMBDA m : Trim(m.name) # <<>>)]
    IN  IF \E k \in 1..Len(fams) : fams[k].id = finalFamily.id
        THEN LET existingIndex == CHOOSE k \in 1..Len(fams) :
                     /\ fams[k].id = finalFamily.id
                     /\ \A j \in 1..(k - 1) : fams[j].id # finalFamily.id
             IN  [fams EXCEPT ![existingIndex] = finalFamily]
        ELSE Append(fams, finalFamily)

\* the save button of the modal: a notice when the name is empty, else the
\* handler runs up to `await AsyncStorage.setItem(...)`
handleSaveFamily ==
    /\ screen = "families"
    /\ alert = "none"
    /\ isModalVisible
    /\ IF currentFamily.name = <<>>
       THEN /\ alert' = "nameRequired"
            /\ UNCHANGED familyCalls
       ELSE /\ Len(familyCalls) < MaxInflight
            /\ familyCalls' = Append(familyCalls,
                   [save |-> TRUE, families |-> SavedFamilies(families, currentFamily)])
            /\ UNCHANGED alert
    /\ UNCHANGED <<homeVars, families, currentFamily, isModalVisible, resultFrom>>
    /\ UNCHANGED <<storeVars, clock, screen, inputVars, resultVars, batchVars>>

\* handleDeleteFamily, the deletion confirmed: the handler runs up to
\* `await AsyncStorage.setItem(...)`
handleDeleteFamily(familyId) ==
    /\ screen = "families"
    /\ alert = "none"
    /\ ~isModalVisible
    /\ \E k \in 1..Len(families) : families[k].id = familyId
    /\ Len(familyCalls) < MaxInflight
    /\ familyCalls' = Append(familyCalls,
           [save |-> FALSE,
            families |-> SelectSeq(families, LAMBDA f : f.id # familyId)])
    /\ UNCHANGED <<homeVars, families, currentFamily, isModalVisible, resultFrom>>
    /\ UNCHANGED <<storeVars, clock, screen, alert, inputVars, resultVars, batchVars>>

\* a variant of FamilyWritten that also drops, from every stored bill, the
\* families that are no longer stored
FamilyWrittenCascading(written) ==
    /\ storeFamilies' = written
    /\ storeBills' =
           [b \in 1..Len(storeBills) |->
               [storeBills[b] EXCEPT !.families =
                   SelectSeq(storeBills[b].families, LAMBDA f :
                       \E k \in 1..Len(written) : written[k].id = f.id)]]

\* AsyncStorage.setItem('families', JSON.stringify(newFamilies)) resolves:
\* the entry 'families' holds the text of newFamilies (ids, names and
\* member names, which read back as they were written)
FamilyWritten(written) ==
    /\ storeFamilies' = written
    /\ UNCHANGED storeBills

\* setItem resolves for the oldest write: setFamilies(newFamilies) and, for
\* a save, closeModal()
handleFamilyDone ==
    /\ familyCalls # <<>>
    /\ FamilyWritten(Head(familyCalls).families)
    /\ families' = Head(familyCalls).families
    /\ IF Head(familyCalls).save
       THEN isModalVisible' = FALSE /\ currentFamily' = NoFamily
       ELSE UNCHANGED <<isModalVisible, currentFamily>>
    /\ familyCalls' = Tail(familyCalls)
    /\ UNCHANGED <<homeVars, resultFrom>>
    /\ UNCHANGED <<clock, screen, alert, inputVars, resultVars, batchVars>>

\* setItem rejects for the oldest write: the catch block logs
handleFamilyFailed ==
    /\ familyCalls # <<>>
    /\ familyCalls' = Tail(familyCalls)
    /\ UNCHANGED <<homeVars, families, currentFamily, isModalVisible, resultFrom>>
    /\ UNCHANGED <<storeVars, clock, screen, alert, inputVars, resultVars, batchVars>>

\* the header's back button, with no write in flight: FamiliesScreen
\* unmounts and the focus effect of the home screen loads
FamiliesBack ==
    /\ screen = "families"
    /\ alert = "none"
    /\ ~isModalVisible
    /\ familyCalls = <<>>
    /\ screen' = "home"
    /\ families' = <<>>
    /\ isLoading' = TRUE
    /\ UNCHANGED <<allBills, summaryVars, editVars, homeCalls, currentFamily,
                   isModalVisible, familyCalls, resultFrom>>
    /\ UNCHANGED <<storeVars, clock, alert, inputVars, resultVars, batchVars>>

(***************************************************************************)
(* Specifications                                                          *)
(***************************************************************************)
\* the texts typed into the cost fields
TotalCostTexts == { <<>>, <<"a">>, <<"2", "0">>, <<"3", "0", "0">> }
ExtraCostTexts == { <<>>, <<"x">>, <<"3", "0">>, <<"1", "2", ".", "5">> }
\* the texts typed into the batch screen's extra cost fields: one of them
\* is a negative number
BatchExtraCostTexts == { <<>>, <<"-", "5">>, <<"3", "0">>, <<"1", "2", ".", "5">> }

\* the dates chosen in the date pickers
Date(y, m, d) == [year |-> y, month |-> m - 1, date |-> d]
PickDates == { Date(2023, 12, 15), Date(2024, 1, 10), Date(2024, 1, 31),
               Date(2024, 2, 1), Date(2024, 3, 5) }
\* those chosen as the start and as the end of a batch run
BatchStartDates == PickDates \ { Date(2024, 1, 10), Date(2024, 3, 5) }
BatchEndDates == PickDates \ { Date(2023, 12, 15) }

\* the forms: the user fills in the input screen and calculates, or fills in
\* the batch screen and generates; nothing is saved from the result screen,
\* the fields of the batch screen are edited while no run is in flight, and
\* the behaviour ends with the success alert of a batch run
NextForms ==
    \/ loadData
    \/ OpenInput
    \/ \E text \in TotalCostTexts : setTotalCost(text)
    \/ \E date \in {Date(2024, 1, 10)} : onConfirmDatePicker(date)
    \/ \E i \in 1..2 : handleSelectFamily(i)
    \/ \E id \in FamilyIds : removeFamilyFromBill(id)
    \/ \E id \in FamilyIds : updateFamilyHasService(id)
    \/ \E id \in FamilyIds, text \in ExtraCostTexts : updateFamilyCost(id, text)
    \/ handleCalculate
    \/ ResultBack
    \/ InputBack
    \/ OpenBatch
    \/ batchCall = IdleCall /\ \E id \in FamilyIds : toggleFamilySelection(id)
    \/ batchCall = IdleCall /\ \E id \in FamilyIds, text \in BatchExtraCostTexts :
                                   handleExtraServiceChange(id, text)
    \/ batchCall = IdleCall /\ \E text \in TotalCostTexts : setBatchTotalCost(text)
    \/ batchCall = IdleCall /\ \E date \in BatchStartDates : setStartDate(date)
    \/ batchCall = IdleCall /\ \E date \in BatchEndDates : setEndDate(date)
    \/ handleBatchCreate
    \/ handleBatchCreateGot
    \/ handleBatchCreateDone
    \/ alert = "none" /\ BatchBack
    \/ DismissAlert

SpecForms == Init /\ [][NextForms]_vars

\* the whole application with its store: the user enters bills of one
\* family and one total, saves them, and runs the batch generator over two
\* start and end dates, while time passes and the store may reject a write
AppTexts == { <<"3", "0", "0">> }
AppDates == { Date(2024, 1, 31), Date(2024, 2, 1) }

Next ==
    \/ Tick
    \/ loadData
    \/ OpenInput
    \/ \E text \in AppTexts : setTotalCost(text)
    \/ handleSelectFamily(1)
    \/ handleCalculate
    \/ handleSaveBill
    \/ handleSaveBillGot
    \/ handleSaveBillDone
    \/ handleSaveBillFailed
    \/ ResultBack
    \/ InputBack
    \/ OpenBatch
    \/ batchCall = IdleCall /\ toggleFamilySelection(1)
    \/ batchCall = IdleCall /\ \E text \in AppTexts : setBatchTotalCost(text)
    \/ batchCall = IdleCall /\ \E date \in AppDates : setStartDate(date)
    \/ batchCall = IdleCall /\ \E date \in AppDates : setEndDate(date)
    \/ handleBatchCreate
    \/ handleBatchCreateGot
    \/ handleBatchCreateDone
    \/ handleBatchCreateFailed
    \/ BatchBack
    \/ DismissAlert

Spec == Init /\ [][Next]_vars

(***************************************************************************)
(* The single bill: made on the input screen or opened from the list,      *)
(* saved on the result screen, deleted from the list; one save and one    *)
(* deletion await the store at a time.                                     *)
(***************************************************************************)
InitBill ==
    /\ storeFamilies = << [id |-> 1, name |-> FamilyName(1), members |-> MembersOf(2)],
                          [id |-> 2, name |-> FamilyName(2), members |-> MembersOf(1)] >>
    /\ storeBills = <<>>
    /\ InitScreens

\* the totals typed into the form of a bill
BillTexts == { <<"3", "0", "0">>, <<"2", "0">> }

NextBill ==
    \/ loadData
    \/ OpenInput
    \/ \E text \in BillTexts : setTotalCost(text)
    \/ handleSelectFamily(1)
    \/ handleCalculate
    \/ saveCalls = <<>> /\ handleSaveBill
    \/ handleSaveBillGot
    \/ handleSaveBillDone
    \/ handleSaveBillFailed
    \/ ResultBack
    \/ InputBack
    \/ \E k \in 1..MaxBills : viewBill(k)
    \/ \E k \in 1..MaxBills : handleModifyBill(k)
    \/ \E k \in 1..MaxBills : handleDuplicateBill(k)
    \/ homeCalls = <<>> /\ \E k \in 1..MaxBills : handleDeleteBill(k)
    \/ handleDeleteDone
    \/ handleDeleteFailed
    \/ DismissAlert

SpecBill == InitBill /\ [][NextBill]_vars

(***************************************************************************)
(* The summary of the home screen over a stored collection.  The stored    *)
(* bills are bills the batch generator writes for one month, for families  *)
(* that were renamed between the runs.                                     *)
(***************************************************************************)
\* the stored 'families' collection at the time of a run: family 1 has two
\* members, family 2 has one
SummaryFamilies(names) ==
    << [id |-> 1, name |-> names[1], members |-> MembersOf(2)],
       [id |-> 2, name |-> names[2], members |-> MembersOf(1)] >>

\* the same two families with the given numbers of members
MemberedFamilies(names, members) ==
    << [id |-> 1, name |-> names[1], members |-> MembersOf(members[1])],
       [id |-> 2, name |-> names[2], members |-> MembersOf(members[2])] >>

\* the runs of the batch generator the stored bills come from: the names of
\* the two families at the time and their numbers of members, the text of
\* family 1's extra cost and the month; the last one is a bill of the input
\* screen without a date
SummaryKinds ==
    { [names |-> << <<"A">>, <<"B">> >>, cost |-> <<>>, date |-> Date(2023, 12, 15),
       members |-> <<2, 1>>],
      [names |-> << <<"A">>, <<"A">> >>, cost |-> <<>>, date |-> Date(2024, 2, 1),
       members |-> <<2, 1>>],
      [names |-> << <<"7">>, <<"B">> >>, cost |-> <<>>, date |-> Date(2024, 10, 20),
       members |-> <<2, 1>>],
      [names |-> << <<"1", "0">>, <<"7">> >>, cost |-> <<>>, date |-> Date(2024, 10, 20),
       members |-> <<0, 0>>],
      [names |-> << <<"A">>, <<"B">> >>, cost |-> <<"-", "5">>, date |-> Date(2024, 10, 20),
       members |-> <<2, 1>>],
      [names |-> << <<"A">>, <<"B">> >>, cost |-> <<>>, date |-> NoDate,
       members |-> <<2, 1>>] }

\* the bill a run of handleBatchCreate at time `now` writes; for the kind
\* without a date, the bill handleCalculate makes of the two families and
\* handleSaveBill stores at time `now`
StoredBill(kind, now) ==
    IF kind.date = NoDate
    THEN LET fams == MemberedFamilies(kind.names, kind.members)
         IN  SavedBills(<<>>,
                 Calculate(<<"3", "0", "0">>,
                     [k \in 1..Len(fams) |->
                         [id |-> fams[k].id,
                          name |-> fams[k].name,
                          lines |-> IntToString(Len(fams[k].members)),
                          extraService |-> [hasService |-> FALSE, cost |-> <<>>]]],
                     NoDate, NullId),
                 now)[1]
    ELSE
    GenerateBills(<<"3", "0", "0">>,
                  FamiliesForBill(MemberedFamilies(kind.names, kind.members), FamilyIds,
                                  [id \in FamilyIds |-> IF id = 1 THEN kind.cost ELSE <<>>]),
                  kind.date, kind.date, now)[1]

\* the stored collections: up to MaxStored bills, written on successive days
SummaryStores ==
    UNION { { JSONBills([k \in 1..n |-> StoredBill(f[k], Now0 - 10 + k)]) :
              f \in [1..n -> SummaryKinds] } : n \in 0..MaxStored }

InitSummary ==
    /\ storeFamilies = SummaryFamilies(<< <<"A">>, <<"B">> >>)
    /\ storeBills \in SummaryStores
    /\ InitScreens

\* the dates chosen in the two date pickers of the summary section
SummaryDates == { Date(2024, 2, 1), Date(2024, 10, 20) }

NextSummary ==
    \/ loadData
    \/ \E date \in SummaryDates : setSummaryStartDate(date)
    \/ \E date \in SummaryDates : setSummaryEndDate(date)
    \/ handleCalculateSummary
    \/ closeSummaryModal
    \/ DismissAlert

SpecSummary == InitSummary /\ [][NextSummary]_vars

(***************************************************************************)
(* The list of the home screen and the families screen over a stored       *)
(* collection of two bills.                                                *)
(***************************************************************************)
\* two bills of the batch generator, for December 2023 and February 2024
HomeBills ==
    JSONBills(<< StoredBill([names |-> << <<"A">>, <<"B">> >>, cost |-> <<>>,
                             date |-> Date(2023, 12, 15),
                             members |-> <<2, 1>>], Now0 - 9),
                 StoredBill([names |-> << <<"A">>, <<"B">> >>, cost |-> <<"3", "0">>,
                             date |-> Date(2024, 2, 1),
                             members |-> <<2, 1>>], Now0 - 8) >>)

InitHome ==
    /\ storeFamilies = SummaryFamilies(<< <<"A">>, <<"B">> >>)
    /\ storeBills = HomeBills
    /\ InitScreens

\* the texts typed into the name fields of the families screen
FamilyNameTexts == { <<>>, <<"7">> }
MemberNameTexts == { <<" ">> }

NextHome ==
    \/ loadData
    \/ homeCalls = <<>> /\ viewBill(1)
    \/ saveCalls = <<>> /\ handleSaveBill
    \/ handleSaveBillGot
    \/ handleSaveBillDone
    \/ handleSaveBillFailed
    \/ ResultBack
    \/ toggleEditMode
    \/ \E k \in 1..Len(allBills) : toggleBillSelection(allBills[k].id)
    \/ homeCalls = <<>> /\ handleBulkDelete
    \/ homeCalls = <<>> /\ \E k \in 1..MaxBills : handleDeleteBill(k)
    \/ handleDeleteDone
    \/ handleDeleteFailed
    \/ homeCalls = <<>> /\ OpenFamilies
    \/ openModal(1)
    \/ \E text \in FamilyNameTexts : setFamilyName(text)
    \/ familyCalls = <<>> /\ handleSaveFamily
    \/ familyCalls = <<>> /\ \E k \in 1..Len(families) : handleDeleteFamily(families[k].id)
    \/ handleFamilyDone
    \/ handleFamilyFailed
    \/ FamiliesBack
    \/ DismissAlert

SpecHome == InitHome /\ [][NextHome]_vars

\* the families screen alone, over the same stored bills
NextFamilies ==
    \/ loadData
    \/ OpenFamilies
    \/ familyCalls = <<>> /\ openModalNew
    \/ familyCalls = <<>> /\ \E i \in 1..Len(families) : openModal(i)
    \/ familyCalls = <<>> /\ closeModal
    \/ familyCalls = <<>> /\ \E text \in FamilyNameTexts : setFamilyName(text)
    \/ familyCalls = <<>> /\
          \E k \in 1..Len(currentFamily.members), name \in MemberNameTexts :
              updateMemberName(currentFamily.members[k].id, name)
    \/ familyCalls = <<>> /\ addMemberField
    \/ familyCalls = <<>> /\
          \E k \in 1..Len(currentFamily.members) :
              removeMemberField(currentFamily.members[k].id)
    \/ familyCalls = <<>> /\ handleSaveFamily
    \/ familyCalls = <<>> /\ \E k \in 1..Len(families) : handleDeleteFamily(families[k].id)
    \/ handleFamilyDone
    \/ handleFamilyFailed
    \/ FamiliesBack
    \/ DismissAlert

SpecFamilies == InitHome /\ [][NextFamilies]_vars

(***************************************************************************)
(* Properties                                                              *)
(***************************************************************************)
\* the bills the two generators have produced in the current state: the
\* data shown by the result screen and the bills of the last batch run
ProducedBills ==
    (IF screen = "result" THEN {data} ELSE {})
        \cup { newBills[k] : k \in 1..Len(newBills) }

BillLines(bill) == SumInt([k \in 1..Len(bill.families) |-> bill.families[k].lines])
BillExtras(bill) ==
    SumNum([k \in 1..Len(bill.families) |-> bill.families[k].extraService.cost])
\* the sum over the families of lines * costPerLine + stored extra cost
BillSum(bill) == SumNum([k \in 1..Len(bill.families) |-> FamilyTotalCost(bill, k)])

\* C1 as stated: for every bill produced by handleCalculate or
\* handleBatchCreate the sum over the bill's families of
\* (lines * costPerLine + stored extra cost) equals the bill's totalCost.
C1_TotalPreserving ==
    \A bill \in ProducedBills : BillSum(bill) = bill.totalCost

\* C1 amended: the sum equals the bill's totalCost whenever the bill has at
\* least one line; a bill without lines has costPerLine 0 and the sum is the
\* sum of the stored extra costs only.
C1_TotalPreservingWithLines ==
    \A bill \in ProducedBills :
        /\ BillLines(bill) > 0 => BillSum(bill) = bill.totalCost
        /\ BillLines(bill) = 0 => BillSum(bill) = BillExtras(bill)

\* a bill with three lines, an extra cost and a rate that is not a whole
\* number has been calculated
C1_Witness ==
    /\ screen = "result"
    /\ BillLines(data) = 3
    /\ Greater(BillExtras(data), Zero)
    /\ data.costPerLine.d > 1

\* C2: in handleCalculate and in handleBatchCreate the computed costPerLine
\* is exactly 0 whenever the participating families have 0 lines in total,
\* whatever totalCost and the extra costs are.
C2_ZeroLinesZeroRate ==
    \A bill \in ProducedBills : BillLines(bill) = 0 => bill.costPerLine = Zero

\* a batch bill without lines whose line cost is not 0
C2_Witness ==
    /\ newBills # <<>>
    /\ BillLines(newBills[1]) = 0
    /\ Greater(newBills[1].totalCost, BillExtras(newBills[1]))

\* the form under the result screen: what handleCalculate has read
FormTotal == OrZero(ParseFloat(totalCost))
FormLines(k) == OrZero(ParseInt(familiesInBill[k].lines)).n
FormEnabledCost(k) ==
    IF familiesInBill[k].extraService.hasService
    THEN OrZero(ParseFloat(familiesInBill[k].extraService.cost))
    ELSE Zero
FormTotalLines == SumInt([k \in 1..Len(familiesInBill) |-> FormLines(k)])
FormEnabledExtras == SumNum([k \in 1..Len(familiesInBill) |-> FormEnabledCost(k)])

\* C3: for a bill computed by handleCalculate with totalLines > 0,
\* costPerLine = (totalCost - sum of enabled extra costs) / totalLines and
\* each family's total on the result screen is lines * costPerLine +
\* (hasService ? extra cost : 0); totalCost 300 with families (2 lines, no
\* extra) and (1 line, extra 30 enabled) gives 90, 180 and 120.
C3_Example ==
    /\ totalCost = <<"3", "0", "0">>
    /\ Len(familiesInBill) = 2
    /\ familiesInBill[1].lines = <<"2">>
    /\ ~familiesInBill[1].extraService.hasService
    /\ familiesInBill[2].lines = <<"1">>
    /\ familiesInBill[2].extraService = [hasService |-> TRUE, cost |-> <<"3", "0">>]
C3_SingleBill ==
    screen = "result" =>
        /\ FormTotalLines > 0 =>
            /\ Times(data.costPerLine, Num(FormTotalLines)) = Minus(FormTotal, FormEnabledExtras)
            /\ \A k \in 1..Len(familiesInBill) :
                   FamilyTotalCost(data, k) =
                       Plus(Times(Num(FormLines(k)), data.costPerLine), FormEnabledCost(k))
        /\ C3_Example =>
            /\ data.costPerLine = Num(90)
            /\ FamilyTotalCost(data, 1) = Num(180)
            /\ FamilyTotalCost(data, 2) = Num(120)

C3_Witness == screen = "result" /\ C3_Example /\ data.costPerLine = Num(90)

\* the form with the cost text of family k replaced
WithCostText(k, text) ==
    [familiesInBill EXCEPT ![k].extraService.cost = text]

\* C4: in handleCalculate a family whose hasService flag is false contributes
\* zero to the extra-cost sum whatever its cost text is: changing the cost
\* text of a disabled family changes neither costPerLine nor any family's total.
C4_DisabledCostIgnored ==
    screen = "result" =>
        \A k \in 1..Len(familiesInBill) :
            ~familiesInBill[k].extraService.hasService =>
                \A text \in ExtraCostTexts :
                    LET other == Calculate(totalCost, WithCostText(k, text),
                                           billDate, editingBillId)
                    IN  /\ other.costPerLine = data.costPerLine
                        /\ \A j \in 1..Len(familiesInBill) :
                               FamilyTotalCost(other, j) = FamilyTotalCost(data, j)

\* a bill was calculated while a disabled family kept a cost text of 30
C4_Witness ==
    /\ screen = "result"
    /\ \E k \in 1..Len(familiesInBill) :
           /\ ~familiesInBill[k].extraService.hasService
           /\ familiesInBill[k].extraService.cost = <<"3", "0">>
           /\ data.families[k].lines > 0

\* the calendar month of a date, counted in months
MonthIndex(date) == date.year * 12 + date.month
\* the tokens of the calendar months from the month of start to the month of
\* end inclusive
MonthTokens(start, end) ==
    [i \in 1..(MonthIndex(end) - MonthIndex(start) + 1) |->
        LET mi == MonthIndex(start) + i - 1
        IN  formatBillMonth([year |-> mi \div 12, month |-> mi % 12, date |-> 1])]
\* a run of handleBatchCreate has passed the checks and generated its bills
\* (the fields of the form are those the run has read)
BatchGenerated == batchCall.pc # "idle" \/ alert = "created"

\* C5: for every accepted start and end date handleBatchCreate emits exactly
\* one bill for each calendar month from the start's month to the end's
\* month inclusive, in consecutive-month order, whatever the days of month
\* of the two dates are.
C5_OneBillPerMonth ==
    BatchGenerated =>
        [k \in 1..Len(newBills) |-> newBills[k].billMonth] = MonthTokens(startDate, endDate)

\* C6: handleBatchCreate fails with the date-ordering error exactly when the
\* end month is earlier than the start month, comparing year and month
\* only; a start and an end in the same calendar month are accepted.
C6_DateErrorByMonth ==
    [][(handleBatchCreate /\ ~BatchIncomplete) =>
           ((alert' = "dateError") <=> (MonthIndex(endDate) < MonthIndex(startDate)))]_vars

\* the sum of the fixed extra costs of the selected families
SelectedExtras ==
    SumNum([k \in 1..Len(SelectedFamilies(allFamilies, selectedFamilyIds)) |->
               OrZero(ParseFloat(extraServiceCosts[
                   SelectedFamilies(allFamilies, selectedFamilyIds)[k].id]))])

\* C7: when the sum of the fixed extra costs of the selected families
\* exceeds totalCost, handleBatchCreate fails with a validation error,
\* creates no bill, leaves the persisted 'bills' collection unchanged and
\* ends with isCreating false.
C7_ExtrasExceedTotal ==
    [][(handleBatchCreate /\ Greater(SelectedExtras, OrZero(ParseFloat(batchTotalCost)))) =>
           /\ alert' \in {"incomplete", "dateError", "amountError"}
           /\ (~BatchIncomplete /\ ~BatchDateError) => alert' = "amountError"
           /\ newBills' = <<>>
           /\ batchCall' = IdleCall
           /\ storeBills' = storeBills
           /\ isCreating' = FALSE]_vars

\* the run was refused because the extra costs exceed the total
C7_Witness ==
    /\ alert = "amountError"
    /\ Greater(SelectedExtras, OrZero(ParseFloat(batchTotalCost)))
    /\ Greater(OrZero(ParseFloat(batchTotalCost)), Zero)
    /\ ~isCreating
    /\ newBills = <<>>

\* the run returns early: no bill is generated and none will be persisted
BatchFailsFast ==
    /\ alert' \in {"incomplete", "dateError", "amountError"}
    /\ newBills' = <<>>
    /\ batchCall' = IdleCall
    /\ isCreating' = FALSE
    /\ storeBills' = storeBills

\* C8 as stated: handleBatchCreate fails fast, generating and persisting no
\* bill, whenever no family is selected or the totalCost text is absent or
\* not parseable as a number.
C8_FailsFastUnparseable ==
    [][(handleBatchCreate /\ (selectedFamilyIds = {} \/ batchTotalCost = <<>>
                              \/ IsNaN(ParseFloat(batchTotalCost)))) =>
           BatchFailsFast]_vars

\* C8 amended: handleBatchCreate fails fast, generating and persisting no
\* bill, whenever no family is selected or the totalCost text is empty; a
\* text that is not empty and not parseable as a number is taken as 0, and
\* the run then generates bills of totalCost 0 unless another check fails.
C8_FailsFastEmpty ==
    [][handleBatchCreate =>
           /\ (selectedFamilyIds = {} \/ batchTotalCost = <<>>) =>
                  (BatchFailsFast /\ alert' = "incomplete")
           /\ (~BatchIncomplete /\ ~BatchDateError /\ ~BatchAmountError
               /\ IsNaN(ParseFloat(batchTotalCost))) =>
                  /\ newBills' # <<>>
                  /\ \A k \in 1..Len(newBills') : newBills'[k].totalCost = Zero]_vars

\* the run was refused for an empty totalCost with a family selected and
\* both dates chosen
C8_Witness ==
    /\ alert = "incomplete"
    /\ batchTotalCost = <<>>
    /\ selectedFamilyIds # {}
    /\ startDate # NoDate
    /\ endDate # NoDate
    /\ newBills = <<>>

\* C10: all bills emitted by one handleBatchCreate run have the same
\* totalCost, costPerLine and families list, in which each selected
\* family's lines is its current member count; they differ in billMonth and id.
C10_SharedSnapshot ==
    BatchGenerated =>
        /\ \A i, j \in 1..Len(newBills) :
               /\ newBills[i].totalCost = newBills[j].totalCost
               /\ newBills[i].costPerLine = newBills[j].costPerLine
               /\ newBills[i].families = newBills[j].families
               /\ i # j => /\ newBills[i].id # newBills[j].id
                           /\ newBills[i].billMonth # newBills[j].billMonth
        /\ \A i \in 1..Len(newBills) :
               /\ { newBills[i].families[k].id : k \in 1..Len(newBills[i].families) }
                      = selectedFamilyIds
               /\ \A k \in 1..Len(newBills[i].families) :
                      \E f \in 1..Len(storeFamilies) :
                          /\ storeFamilies[f].id = newBills[i].families[k].id
                          /\ newBills[i].families[k].lines = Len(storeFamilies[f].members)

\* a run over several months with both families, of 2 and 1 members
C10_Witness ==
    /\ BatchGenerated
    /\ Len(newBills) >= 2
    /\ Len(newBills[1].families) = 2
    /\ newBills[1].families[1].lines = 2
    /\ newBills[1].families[2].lines = 1

\* C9: after any sequence of single-bill saves and batch runs, the bills of
\* the persisted 'bills' collection have pairwise distinct ids.
C9_DistinctIds ==
    \A i, j \in 1..Len(storeBills) :
        i # j => storeBills[i].id # storeBills[j].id

\* the token of a bill without a date
NoMonth == <<"N", "/", "A">>

\* the bill's month lies between the months of the two dates, as months
ChronologicallyInRange(bill, start, end) ==
    /\ bill.billMonth # NoMonth
    /\ MonthIndex(start) <= MonthIndex(parseBillMonth(bill.billMonth))
    /\ MonthIndex(parseBillMonth(bill.billMonth)) <= MonthIndex(end)

\* C11: handleCalculateSummary aggregates exactly the loaded bills whose
\* month lies chronologically between the start month and the end month
\* inclusive; when it reports that there is no data, no loaded bill does
C11_LexicographicIsChronological ==
    /\ isSummaryModalVisible =>
          summaryBills = SelectSeq(allBills, LAMBDA bill :
              ChronologicallyInRange(bill, summaryStartDate, summaryEndDate))
    /\ alert = "noData" =>
          \A k \in 1..Len(allBills) :
              ~ChronologicallyInRange(allBills[k], summaryStartDate, summaryEndDate)

\* C11 witness: an aggregation over a range of several months that took
\* bills of two months and left a loaded bill out
C11_Witness ==
    /\ isSummaryModalVisible
    /\ MonthIndex(summaryStartDate) < MonthIndex(summaryEndDate)
    /\ Len(summaryBills) < Len(allBills)
    /\ \E i, j \in 1..Len(summaryBills) :
          summaryBills[i].billMonth # summaryBills[j].billMonth

\* handleCalculateSummary gets past its first guard and no loaded bill lies
\* in the selected range
NoBillInRange ==
    /\ summaryStartDate # NoDate
    /\ summaryEndDate # NoDate
    /\ Len(allBills) > 0
    /\ \A k \in 1..Len(allBills) :
          ~ChronologicallyInRange(allBills[k], summaryStartDate, summaryEndDate)

\* C12 (as stated): after an aggregation over a range that holds no bill,
\* the summary data is the empty sequence
C12_EmptySummary == alert = "noData" => summaryData = <<>>

\* C12 (amended): an aggregation over a range that holds no bill raises the
\* "no data" notice, keeps the summary modal closed and leaves the summary
\* data as it was
C12_NoDataKeepsSummary ==
    [][(handleCalculateSummary /\ NoBillInRange) =>
          /\ alert' = "noData"
          /\ ~isSummaryModalVisible'
          /\ summaryData' = summaryData]_vars

\* C12 witness: the notice is up after an earlier aggregation of the session
\* had produced a summary, which is still held
C12_Witness == alert = "noData" /\ summaryData # <<>> /\ NoBillInRange

\* lines x costPerLine + extra cost of one family of a bill
ParticipationCost(bill, family) ==
    Plus(Times(Num(family.lines), bill.costPerLine), family.extraService.cost)

\* the sum of the costs of the families of the bills that carry the name
NameCostInBill(bill, name) ==
    SumNum([k \in 1..Len(bill.families) |->
               IF bill.families[k].name = name
               THEN ParticipationCost(bill, bill.families[k]) ELSE Zero])
NameCost(bills, name) ==
    SumNum([b \in 1..Len(bills) |-> NameCostInBill(bills[b], name)])

\* the family names that occur in the bills
NamesIn(bills) ==
    UNION { { bills[b].families[k].name : k \in 1..Len(bills[b].families) } :
            b \in 1..Len(bills) }

\* C13: the summary has exactly one entry per family name that occurs in the
\* bills in range, and the entry's totalCost is the sum of the costs of all
\* participations under that name, whatever their family ids
C13_OneEntryPerName ==
    isSummaryModalVisible =>
        /\ \A i, j \in 1..Len(summaryData) :
              summaryData[i].name = summaryData[j].name => i = j
        /\ { summaryData[i].name : i \in 1..Len(summaryData) } = NamesIn(summaryBills)
        /\ \A i \in 1..Len(summaryData) :
              summaryData[i].totalCost = NameCost(summaryBills, summaryData[i].name)

\* the participations (bill index, family index) of the aggregated bills
SummaryParticipations ==
    UNION { { <<b, k>> : k \in 1..Len(summaryBills[b].families) } :
            b \in 1..Len(summaryBills) }

\* C13 witness: a summary in which two family ids share one name, and one
\* family id occurs under two names
C13_Witness ==
    /\ isSummaryModalVisible
    /\ \E p, q \in SummaryParticipations :
          LET f == summaryBills[p[1]].families[p[2]]
              g == summaryBills[q[1]].families[q[2]]
          IN  f.name = g.name /\ f.id # g.id
    /\ \E p, q \in SummaryParticipations :
          LET f == summaryBills[p[1]].families[p[2]]
              g == summaryBills[q[1]].families[q[2]]
          IN  f.name # g.name /\ f.id = g.id

\* the bills that hold a family of the name, in the order of the list
ContributingBills(bills, name) ==
    SelectSeq(bills, LAMBDA bill :
        \E k \in 1..Len(bill.families) : bill.families[k].name = name)

\* C14 (as stated): the monthlyBreakdown of an entry holds one tuple per
\* contributing bill, in the order of the filtered bills
C14_OneTuplePerBill ==
    isSummaryModalVisible =>
        \A i \in 1..Len(summaryData) :
            LET contributing == ContributingBills(summaryBills, summaryData[i].name)
            IN  [j \in 1..Len(summaryData[i].monthlyBreakdown) |->
                    summaryData[i].monthlyBreakdown[j].month]
                = [j \in 1..Len(contributing) |-> contributing[j].billMonth]

\* the {month, cost} tuples of the families of the bills that carry the
\* name: bill by bill and, within a bill, family by family
RECURSIVE TuplesOf(_, _)
TuplesOf(bills, name) ==
    IF bills = <<>> THEN <<>>
    ELSE LET bill == bills[Len(bills)]
             mine == SelectSeq(bill.families, LAMBDA family : family.name = name)
         IN  TuplesOf(SubSeq(bills, 1, Len(bills) - 1), name) \o
             [k \in 1..Len(mine) |->
                 [month |-> bill.billMonth, cost |-> ParticipationCost(bill, mine[k])]]

\* C14 (amended): the monthlyBreakdown of an entry holds one tuple per
\* family of that name of each filtered bill, in the order of the bills and
\* of the families within a bill, and the entry's totalCost is the sum of
\* the costs of its monthlyBreakdown
C14_OneTuplePerParticipation ==
    isSummaryModalVisible =>
        \A i \in 1..Len(summaryData) :
            /\ summaryData[i].monthlyBreakdown = TuplesOf(summaryBills, summaryData[i].name)
            /\ summaryData[i].totalCost =
                  SumNum([j \in 1..Len(summaryData[i].monthlyBreakdown) |->
                             summaryData[i].monthlyBreakdown[j].cost])

\* C14 witness: an entry fed by two bills of different months, one of which
\* holds two families of the entry's name
C14_Witness ==
    /\ isSummaryModalVisible
    /\ \E i \in 1..Len(summaryData) :
          LET contributing == ContributingBills(summaryBills, summaryData[i].name)
          IN  /\ Len(summaryData[i].monthlyBreakdown) > Len(contributing)
              /\ \E a, b \in 1..Len(contributing) :
                    contributing[a].billMonth # contributing[b].billMonth

\* the place of the first family of the name in the bills: the bill's
\* position, then the family's position within the bill
FirstAppearance(bills, name) ==
    LET b == CHOOSE b \in 1..Len(bills) :
                 /\ \E k \in 1..Len(bills[b].families) : bills[b].families[k].name = name
                 /\ \A c \in 1..(b - 1) :
                       \A k \in 1..Len(bills[c].families) : bills[c].families[k].name # name
        k == CHOOSE k \in 1..Len(bills[b].families) :
                 /\ bills[b].families[k].name = name
                 /\ \A j \in 1..(k - 1) : bills[b].families[j].name # name
    IN  <<b, k>>

\* C15: the entries of the summary are in the order in which their names
\* first appear in the filtered bills (bill order, then family order)
C15_FirstAppearanceOrder ==
    isSummaryModalVisible =>
        \A i, j \in 1..Len(summaryData) :
            i < j =>
                LET p == FirstAppearance(summaryBills, summaryData[i].name)
                    q == FirstAppearance(summaryBills, summaryData[j].name)
                IN  p[1] < q[1] \/ (p[1] = q[1] /\ p[2] < q[2])

\* C16: every family of every aggregated bill is counted, in the entry of
\* its name, with lines x costPerLine + the stored extra cost, whether its
\* hasService flag is set or not
C16_ExtraCostUnconditional ==
    isSummaryModalVisible =>
        \A p \in SummaryParticipations :
            LET bill == summaryBills[p[1]]
                family == bill.families[p[2]]
            IN  \E i \in 1..Len(summaryData) :
                    /\ summaryData[i].name = family.name
                    /\ \E j \in 1..Len(summaryData[i].monthlyBreakdown) :
                          summaryData[i].monthlyBreakdown[j] =
                              [month |-> bill.billMonth,
                               cost |-> Plus(Times(Num(family.lines), bill.costPerLine),
                                             family.extraService.cost)]

\* C16 witness: an aggregated bill holds a family whose hasService flag is
\* false and whose stored extra cost is not zero
C16_Witness ==
    /\ isSummaryModalVisible
    /\ \E p \in SummaryParticipations :
          LET family == summaryBills[p[1]].families[p[2]]
          IN  /\ ~family.extraService.hasService
              /\ family.extraService.cost # Zero

\* the record r holds what the bill b holds, the id apart
SameContent(r, b) ==
    /\ r.billMonth = b.billMonth
    /\ r.totalCost = b.totalCost
    /\ r.costPerLine = b.costPerLine
    /\ r.families = b.families

\* C17 (as stated): when handleSaveBill succeeds for the bill on the result
\* screen, the collection a reload yields holds a record with the content of
\* the bill and, when the bill has an id, with that id
C17_RoundTripSameId ==
    [][handleSaveBillDone =>
          LET loadedBills == SortBills(storeBills')
          IN  \E k \in 1..Len(loadedBills) :
                  /\ SameContent(loadedBills[k], data)
                  /\ data.id # NullId => loadedBills[k].id = data.id]_vars

\* C17 (amended): when handleSaveBill succeeds, the collection a reload
\* yields holds a record with the content of the bill; the record has the
\* bill's id when the written collection holds that id, and else, for a
\* bill without an id or with an id no stored bill has any more, a
\* timestamp of the session
C17_RoundTrip ==
    [][handleSaveBillDone =>
          LET loadedBills == SortBills(storeBills')
          IN  \E k \in 1..Len(loadedBills) :
                  /\ SameContent(loadedBills[k], data)
                  /\ IF \E j \in 1..Len(loadedBills) : loadedBills[j].id = data.id
                     THEN loadedBills[k].id = data.id
                     ELSE loadedBills[k].id \in Now0..(Now0 + MaxClock)]_vars

\* C17 witness: a bill opened from the list was saved and the stored
\* collection holds it under its id
C17_Witness ==
    /\ alert = "saved"
    /\ resultFrom = "home"
    /\ data.id # NullId
    /\ \E k \in 1..Len(storeBills) :
          storeBills[k].id = data.id /\ SameContent(storeBills[k], data)

\* C18: whatever families are saved, edited or deleted on the families
\* screen, the persisted bills stay as they were: same bills, same family
\* names, line counts and extra costs
C18_FamilyEditsKeepBills == storeBills = HomeBills

\* C18 witness: a stored bill names a family that has been deleted, and a
\* family that has since been renamed and has lost a member
C18_Witness ==
    /\ familyCalls = <<>>
    /\ \E b \in 1..Len(storeBills) :
          /\ \E k \in 1..Len(storeBills[b].families) :
                \A j \in 1..Len(storeFamilies) :
                    storeFamilies[j].id # storeBills[b].families[k].id
          /\ \E k \in 1..Len(storeBills[b].families) :
                \E j \in 1..Len(storeFamilies) :
                    /\ storeFamilies[j].id = storeBills[b].families[k].id
                    /\ storeFamilies[j].name # storeBills[b].families[k].name
                    /\ Len(storeFamilies[j].members) < storeBills[b].families[k].lines

\* C19: a store write that fails leaves the in-memory collection as it
\* was: allBills after a failed single or bulk delete, together with edit
\* mode and the selection; families after a failed family save or delete;
\* and after a failed handleSaveBill the bill is still unsaved
C19_FailedWriteKeepsMemory ==
    [][/\ handleDeleteFailed =>
             /\ allBills' = allBills
             /\ isEditMode' = isEditMode
             /\ selectedBillIds' = selectedBillIds
       /\ handleFamilyFailed => families' = families
       /\ handleSaveBillFailed => isSaved' = isSaved /\ ~isSaved']_vars

\* C19 witness: the failure notice of a bulk delete is up, with edit mode
\* on, the selection kept and both bills still in the list
C19_Witness ==
    /\ alert = "deleteFailed"
    /\ isEditMode
    /\ selectedBillIds # {}
    /\ allBills = SortBills(HomeBills)
    /\ storeBills = HomeBills

\* C20: no invocation of handleSaveBill starts while an earlier one is
\* awaiting the store, and none of handleBatchCreate starts while a run is
\* awaiting the store
C20_NoOverlappingInvocation ==
    [][/\ handleSaveBill => saveCalls = <<>>
       /\ handleBatchCreate => batchCall = IdleCall]_vars

\* the form under the result screen has lines and its enabled extra costs
\* exceed its total
FormExtrasExceedTotal ==
    /\ screen = "result"
    /\ resultFrom = "input"
    /\ FormTotalLines > 0
    /\ Greater(FormEnabledExtras, FormTotal)

\* C21: handleCalculate validates nothing: when the enabled extra costs
\* exceed totalCost and there are lines, the result screen shows a bill with
\* the negative costPerLine (totalCost - extras) / totalLines and its save
\* button can be pressed; the batch generator never generates bills from
\* extra costs that exceed its total
C21_NoValidation ==
    /\ FormExtrasExceedTotal =>
          /\ Less(data.costPerLine, Zero)
          /\ data.costPerLine = Divide(Minus(FormTotal, FormEnabledExtras), Num(FormTotalLines))
          /\ alert = "none" => ENABLED handleSaveBill
    /\ BatchGenerated => ~Greater(SelectedExtras, OrZero(ParseFloat(batchTotalCost)))

\* C21 witness: a bill of total 20 with an enabled extra cost of 30 is on
\* the result screen
C21_Witness ==
    /\ FormExtrasExceedTotal
    /\ FormTotal = Num(20)
    /\ Less(data.costPerLine, Zero)
    /\ alert = "none"

\* the stored extra costs of a bill's families whose flag is on
BillGatedExtras(bill) ==
    SumNum([k \in 1..Len(bill.families) |->
               IF bill.families[k].extraService.hasService
               THEN bill.families[k].extraService.cost ELSE Zero])

\* C22: every bill produced by handleCalculate or handleBatchCreate stores
\* an extra cost of 0 for each family whose hasService flag is false, so the
\* sum of the stored extra costs equals the sum gated by the flag
C22_FlagOffStoresZero ==
    \A bill \in ProducedBills :
        /\ \A k \in 1..Len(bill.families) :
               ~bill.families[k].extraService.hasService =>
                   bill.families[k].extraService.cost = Zero
        /\ BillExtras(bill) = BillGatedExtras(bill)

\* the ids of a list of bills, in order
BillIds(bills) == [k \in 1..Len(bills) |-> bills[k].id]

\* written is existing with the record of bill's id replaced by bill, in place
ReplacedInPlace(existing, written, bill) ==
    /\ Len(written) = Len(existing)
    /\ BillIds(written) = BillIds(existing)
    /\ \E k \in 1..Len(existing) :
          /\ existing[k].id = bill.id
          /\ written[k] = bill
          /\ \A j \in 1..Len(existing) : j # k => written[j] = existing[j]

\* written is existing followed by one record: bill under an id that is not
\* null and not the id of an existing record
AppendedFresh(existing, written, bill) ==
    /\ Len(written) = Len(existing) + 1
    /\ SubSeq(written, 1, Len(existing)) = existing
    /\ LET new == written[Len(written)]
       IN  /\ [new EXCEPT !.id = bill.id] = bill
           /\ new.id # NullId
           /\ \A k \in 1..Len(existing) : existing[k].id # new.id

\* C23: an invocation of handleSaveBill for a bill whose id is not null and
\* is in the collection it reads replaces that record in place (same length,
\* same order, every other record unchanged); for a bill whose id is null or
\* not in the collection it appends one record with a fresh id and changes
\* no record; what it writes to the store is that collection
C23_ReplaceOrAppend ==
    [][/\ handleSaveBillGot =>
            \E i \in 1..Len(saveCalls) :
                /\ saveCalls[i].pc = "getItem"
                /\ saveCalls'[i].pc = "setItem"
                /\ IF data.id # NullId
                      /\ \E k \in 1..Len(storeBills) : storeBills[k].id = data.id
                   THEN ReplacedInPlace(storeBills, saveCalls'[i].bills, data)
                   ELSE AppendedFresh(storeBills, saveCalls'[i].bills, data)
       /\ handleSaveBillDone => storeBills' = Head(saveCalls).bills]_vars

\* C23 witness: a modified bill is being saved over its record, the first
\* of at least two in the store
C23_Witness ==
    /\ screen = "result"
    /\ data.id # NullId
    /\ Len(storeBills) >= 2
    /\ storeBills[1].id = data.id
    /\ storeBills[1] # data
    /\ \E i \in 1..Len(saveCalls) :
          /\ saveCalls[i].pc = "setItem"
          /\ ReplacedInPlace(storeBills, saveCalls[i].bills, data)

\* the set of the ids of a list of bills
IdSet(bills) == { bills[k].id : k \in 1..Len(bills) }

\* C24: a delete of the home screen that completes removes from the
\* persisted collection the targeted ids and nothing else: no bill that is
\* in the store and not targeted is dropped, and no bill comes back
C24_DeleteRemovesOnlyTargets ==
    [][handleDeleteDone =>
           IdSet(storeBills') = IdSet(storeBills) \ Head(homeCalls).ids]_vars

\* C25: on the home screen, in every reachable state, the selection is
\* empty while edit mode is off and every selected id is the id of a bill of
\* allBills; toggling edit mode and a bulk delete that succeeds clear the
\* selection
C25_SelectionWithinList ==
    /\ []((~isEditMode => selectedBillIds = {})
            /\ selectedBillIds \subseteq IdSet(allBills))
    /\ [][(toggleEditMode \/ (handleDeleteDone /\ Head(homeCalls).bulk))
               => selectedBillIds' = {}]_vars

\* the result screen shows a bill calculated on the input screen
ResultOfInput == screen = "result" /\ resultFrom = "input"

SummaryTotal == SumNum([i \in 1..Len(summaryData) |-> summaryData[i].totalCost])

\* C27 as stated: for every successful aggregation the sum of totalCost over
\* the entries of the summary equals the sum of totalCost of the stored
\* bills in the selected range
C27_SummaryTotalIsBillsTotal ==
    isSummaryModalVisible =>
        SummaryTotal = SumNum([k \in 1..Len(summaryBills) |-> summaryBills[k].totalCost])

\* what a bill adds to the summary: its totalCost when its families have a
\* line, the sum of its stored extra costs when they have none
AllocatedCost(bill) ==
    IF BillLines(bill) > 0 THEN bill.totalCost ELSE BillExtras(bill)

\* C27 amended: the sum of totalCost over the entries equals the sum of
\* totalCost of the bills in range whose families have at least one line,
\* plus the stored extra costs of the bills in range whose families have no
\* line
C27_SummaryTotalIsAllocated ==
    isSummaryModalVisible =>
        SummaryTotal = SumNum([k \in 1..Len(summaryBills) |-> AllocatedCost(summaryBills[k])])

\* C27 witness: a summary over two bills in range, one with lines and one
\* without, in which a name has two participations
C27_Witness ==
    /\ isSummaryModalVisible
    /\ Len(summaryBills) = 2
    /\ BillLines(summaryBills[1]) > 0
    /\ BillLines(summaryBills[2]) = 0
    /\ \E i \in 1..Len(summaryData) : Len(summaryData[i].monthlyBreakdown) = 2

====
